---- MODULE Spec2Model ----
(***************************************************************************)
(* A model of the session core of the Pond client (client/client.go):      *)
(* the key-exchange ("handshake") record and its validation, the contact   *)
(* and message state owned by the session goroutine, and the send queue    *)
(* shared with the network goroutine.                                      *)
(*                                                                         *)
(* Byte strings are sequences of small naturals.  The widths of the        *)
(* fixed-size arrays of the source ([32]byte keys, [64]byte signatures)    *)
(* are scaled down to KeyLen and SigLen elements; a byte holds 0..ByteMax. *)
(***************************************************************************)
EXTENDS Integers, Sequences, FiniteSets, TLC

\* Width, in elements, of the source's [32]byte arrays (keys, DH values).
KeyLen == 2

\* Width of the source's [64]byte signature: twice a key.
SigLen == 2 * KeyLen

\* Number of fields of the KeyExchange record (client.go:1962-1970).
NumFields == 7

\* A byte below VarintBase is the last byte of a varint; a byte at or above
\* it carries the continuation bit.  A tag (field number * 4 + wire type)
\* of any field of KeyExchange fits one byte.
VarintBase == 4 * (NumFields + 1)

ByteMax == 2 * VarintBase - 1

Byte == 0 .. ByteMax

ByteMod == ByteMax + 1

\* Number of long-term signing key pairs that exist (the two parties).
NumKeys == 2

PrivKeys == 1 .. NumKeys

NoErr == ""

ZeroKey == [i \in 1 .. KeyLen |-> 0]

(***************************************************************************)
(* Protocol-buffer wire format (proto.Marshal / proto.Unmarshal).  A       *)
(* record is the concatenation of its fields; a field is a tag varint      *)
(* (field number * 4 + wire type), then for wire type 2 (bytes, string) a  *)
(* length varint and that many content bytes, for wire type 0 a varint,    *)
(* for wire type 1 one fixed byte.  Wire type 3 does not exist.  Unknown   *)
(* fields are skipped, a repeated field keeps its last value, and every    *)
(* field of the two records is required.                                   *)
(***************************************************************************)

\* Field types of SignedKeyExchange {signed, signature}.
SignedKeyExchangeDesc == << "bytes", "bytes" >>

\* Field types of KeyExchange {public_key, identity_public, server, dh,
\* group, group_key, generation}.
KeyExchangeDesc ==
  << "bytes", "bytes", "bytes", "bytes", "bytes", "bytes", "varint" >>

Tag(f, wt) == f * 4 + wt

RECURSIVE EncodeVarint(_)
EncodeVarint(v) ==
  IF v < VarintBase THEN << v >>
  ELSE << VarintBase + (v % VarintBase) >> \o EncodeVarint(v \div VarintBase)

\* The varint that starts at b[i], of at most three bytes: whether there
\* is one, its value and the index after it.
RECURSIVE DecodeVarintFrom(_, _, _)
DecodeVarintFrom(b, i, n) ==
  IF i > Len(b) \/ n > 3 THEN [ok |-> FALSE, val |-> 0, next |-> i]
  ELSE IF b[i] < VarintBase THEN [ok |-> TRUE, val |-> b[i], next |-> i + 1]
  ELSE LET r == DecodeVarintFrom(b, i + 1, n + 1) IN
       [ok |-> r.ok,
        val |-> (b[i] - VarintBase) + VarintBase * r.val,
        next |-> r.next]

DecodeVarint(b, i) == DecodeVarintFrom(b, i, 1)

RECURSIVE MarshalFrom(_, _, _)
MarshalFrom(desc, vals, f) ==
  IF f > Len(desc) THEN << >>
  ELSE (IF desc[f] = "varint"
          THEN EncodeVarint(Tag(f, 0)) \o EncodeVarint(vals[f][1])
          ELSE EncodeVarint(Tag(f, 2)) \o EncodeVarint(Len(vals[f]))
               \o vals[f])
       \o MarshalFrom(desc, vals, f + 1)

\* proto.Marshal: vals[f] is the value of field f (a varint as << v >>).
Marshal(desc, vals) == MarshalFrom(desc, vals, 1)

RECURSIVE UnmarshalFrom(_, _, _, _, _)
UnmarshalFrom(desc, b, i, set, vals) ==
  IF i > Len(b) THEN
    IF set = 1 .. Len(desc)
      THEN [err |-> NoErr, vals |-> vals]
      ELSE [err |-> "proto: required field not set", vals |-> vals]
  ELSE
    LET tag == DecodeVarint(b, i)
        f == tag.val \div 4
        wt == tag.val % 4
        known == f \in 1 .. Len(desc)
        v == DecodeVarint(b, tag.next)
    IN
    IF ~tag.ok THEN [err |-> "proto: unexpected EOF", vals |-> vals]
    ELSE IF f = 0 THEN [err |-> "proto: illegal tag 0", vals |-> vals]
    ELSE IF wt = 3 THEN [err |-> "proto: bad wiretype", vals |-> vals]
    ELSE IF wt = 0 THEN
      IF ~v.ok THEN [err |-> "proto: unexpected EOF", vals |-> vals]
      ELSE IF ~known THEN UnmarshalFrom(desc, b, v.next, set, vals)
      ELSE IF desc[f] = "varint" THEN
        UnmarshalFrom(desc, b, v.next, set \cup {f},
                      [vals EXCEPT ![f] = << v.val >>])
      ELSE [err |-> "proto: bad wiretype", vals |-> vals]
    ELSE IF wt = 1 THEN
      IF tag.next > Len(b)
        THEN [err |-> "proto: unexpected EOF", vals |-> vals]
      ELSE IF ~known THEN UnmarshalFrom(desc, b, tag.next + 1, set, vals)
      ELSE [err |-> "proto: bad wiretype", vals |-> vals]
    ELSE
      IF ~v.ok \/ v.next + v.val - 1 > Len(b)
        THEN [err |-> "proto: unexpected EOF", vals |-> vals]
      ELSE IF ~known THEN UnmarshalFrom(desc, b, v.next + v.val, set, vals)
      ELSE IF desc[f] = "bytes" THEN
        UnmarshalFrom(desc, b, v.next + v.val, set \cup {f},
                      [vals EXCEPT ![f] = SubSeq(b, v.next, v.next + v.val - 1)])
      ELSE [err |-> "proto: bad wiretype", vals |-> vals]

\* proto.Unmarshal: the fields of b, or the first error met.
Unmarshal(desc, b) ==
  UnmarshalFrom(desc, b, 1, {}, [f \in 1 .. Len(desc) |-> << >>])

(***************************************************************************)
(* Ed25519, as an ideal signature scheme: a signature verifies under a     *)
(* public key only when it was made with the matching private key over     *)
(* exactly the same bytes.  The digest is a checksum modulo ByteMod, which *)
(* every change of a single element changes.                               *)
(***************************************************************************)

RECURSIVE SumFrom(_, _)
SumFrom(s, i) == IF i > Len(s) THEN 0 ELSE s[i] + SumFrom(s, i + 1)

Checksum(msg) == SumFrom(msg, 1) % ByteMod

\* The public key of private key k.
PubOf(k) == [i \in 1 .. KeyLen |-> 2 * k]

\* ed25519.Sign
Sign(priv, msg) == [i \in 1 .. SigLen |-> (priv * i + Checksum(msg)) % ByteMod]

\* ed25519.Verify
Verify(pub, msg, sig) ==
  \E k \in PrivKeys : PubOf(k) = pub /\ sig = Sign(k, msg)

\* curve25519.ScalarBaseMult: the public value of a DH private scalar
\* (the base point is 9).
ScalarBaseMult(priv) == [i \in 1 .. KeyLen |-> (9 * priv[i]) % ByteMod]

(***************************************************************************)
(* Collaborators whose code is outside client.go.                          *)
(***************************************************************************)

\* parseServer: an address is << scheme, host... >> with the pondserver
\* scheme (1) and a non-empty host.
parseServer(server, testing) ==
  IF Len(server) >= 2 /\ server[1] = 1
    THEN NoErr
    ELSE "invalid server address"

\* bbssig.Group.Unmarshal: a group descriptor is one non-zero element.
GroupUnmarshal(b) == Len(b) = 1 /\ b[1] # 0

\* bbssig.MemberKey.Unmarshal(group, b): the member key of that group, a
\* pair << group, member >>, or nil (<< >>) when b does not parse.
MemberKeyUnmarshal(group, b) ==
  IF Len(b) = 1 /\ b[1] # 0 THEN << group[1], b[1] >> ELSE << >>

\* bbssig.PrivateKey.NewMember: a fresh member key of the group.
NewMember(groupPriv, r) == << groupPriv, r >>

(***************************************************************************)
(* Identity and Contact (client.go:78-139, 165-195).                       *)
(***************************************************************************)

\* The long-term state of party k: its signing key pair, its public
\* identity value, its home server, its group private key and generation.
Identity(k) ==
  [priv |-> k,
   pub |-> PubOf(k),
   identityPublic |-> ScalarBaseMult([i \in 1 .. KeyLen |-> k]),
   server |-> << 1, k >>,
   groupPriv |-> k,
   generation |-> k]

\* The new contact if its id field were left at Go's zero value while the
\* contact is stored under the id drawn.
NewContact_NoId(name, id) ==
  [id |-> 0,
   name |-> name,
   isPending |-> TRUE,
   kxsBytes |-> << >>,
   groupKey |-> << >>,
   myGroupKey |-> << >>,
   generation |-> 0,
   theirServer |-> << >>,
   theirPub |-> ZeroKey,
   theirIdentityPublic |-> ZeroKey,
   lastDHPrivate |-> ZeroKey,
   currentDHPrivate |-> ZeroKey,
   theirLastDHPublic |-> ZeroKey,
   theirCurrentDHPublic |-> ZeroKey]

\* &Contact{name: name, isPending: true, id: id}: every other field has
\* Go's zero value.
NewContact(name, id) ==
  [id |-> id,
   name |-> name,
   isPending |-> TRUE,
   kxsBytes |-> << >>,
   groupKey |-> << >>,
   myGroupKey |-> << >>,
   generation |-> 0,
   theirServer |-> << >>,
   theirPub |-> ZeroKey,
   theirIdentityPublic |-> ZeroKey,
   lastDHPrivate |-> ZeroKey,
   currentDHPrivate |-> ZeroKey,
   theirLastDHPublic |-> ZeroKey,
   theirCurrentDHPublic |-> ZeroKey]

\* newKeyExchange with the DH public value derived from the wrong ratchet
\* slot (currentDHPrivate, still zero) instead of the scalar just drawn.
newKeyExchange_WrongSlot(c, contact, dh, member) ==
  LET groupKey == NewMember(c.groupPriv, member)
      kxBytes == Marshal(KeyExchangeDesc,
                         << c.pub, c.identityPublic, c.server,
                            ScalarBaseMult(contact.currentDHPrivate),
                            << groupKey[1] >>, << groupKey[2] >>,
                            << c.generation >> >>)
  IN [contact EXCEPT !.lastDHPrivate = dh,
                     !.groupKey = groupKey,
                     !.kxsBytes = Marshal(SignedKeyExchangeDesc,
                                          << kxBytes, Sign(c.priv, kxBytes) >>)]

\* client.newKeyExchange: dh and member are what c.rand yields for the DH
\* private scalar and for the new group member.  The result is the contact
\* as mutated; the bytes returned are its kxsBytes.
newKeyExchange(c, contact, dh, member) ==
  LET groupKey == NewMember(c.groupPriv, member)
      kx == << c.pub,
               c.identityPublic,
               c.server,
               ScalarBaseMult(dh),
               << groupKey[1] >>,
               << groupKey[2] >>,
               << c.generation >> >>
      kxBytes == Marshal(KeyExchangeDesc, kx)
      sig == Sign(c.priv, kxBytes)
      kxs == << kxBytes, sig >>
  IN [contact EXCEPT !.lastDHPrivate = dh,
                     !.groupKey = groupKey,
                     !.kxsBytes = Marshal(SignedKeyExchangeDesc, kxs)]

\* The checks of processKeyExchange that follow the signature check, on a
\* contact c2 whose theirPub and theirServer are already written.
processKeyExchangeTail(c2, kx) ==
  IF ~GroupUnmarshal(kx[5]) THEN [contact |-> c2, err |-> "invalid group"]
  ELSE
    LET c3 == [c2 EXCEPT !.myGroupKey = MemberKeyUnmarshal(kx[5], kx[6])] IN
    IF c3.myGroupKey = << >> THEN [contact |-> c3, err |-> "invalid group key"]
    ELSE IF Len(kx[2]) # KeyLen
      THEN [contact |-> c3, err |-> "invalid public identity"]
    ELSE
      LET c4 == [c3 EXCEPT !.theirIdentityPublic = kx[2]] IN
      IF Len(kx[4]) # KeyLen
        THEN [contact |-> c4, err |-> "invalid public DH value"]
      ELSE [contact |-> [c4 EXCEPT !.theirCurrentDHPublic = kx[4],
                                   !.generation = kx[7][1]],
            err |-> NoErr]

\* processKeyExchange without the signature check.
processKeyExchange_NoVerify(contact, kxsBytes, testing) ==
  LET kxs == Unmarshal(SignedKeyExchangeDesc, kxsBytes)
      kx == Unmarshal(KeyExchangeDesc, kxs.vals[1])
      c2 == [contact EXCEPT !.theirPub = kx.vals[1],
                            !.theirServer = kx.vals[3]]
  IN
  IF kxs.err # NoErr THEN [contact |-> contact, err |-> kxs.err]
  ELSE IF Len(kxs.vals[2]) # SigLen
    THEN [contact |-> contact, err |-> "invalid signature length"]
  ELSE IF kx.err # NoErr THEN [contact |-> contact, err |-> kx.err]
  ELSE IF Len(kx.vals[1]) # KeyLen
    THEN [contact |-> contact, err |-> "invalid public key"]
  ELSE IF parseServer(c2.theirServer, testing) # NoErr
    THEN [contact |-> c2, err |-> parseServer(c2.theirServer, testing)]
  ELSE processKeyExchangeTail(c2, kx.vals)

\* processKeyExchange with the server address checked before the signature.
processKeyExchange_ServerFirst(contact, kxsBytes, testing) ==
  LET kxs == Unmarshal(SignedKeyExchangeDesc, kxsBytes)
      kx == Unmarshal(KeyExchangeDesc, kxs.vals[1])
      c1 == [contact EXCEPT !.theirPub = kx.vals[1]]
      c2 == [c1 EXCEPT !.theirServer = kx.vals[3]]
  IN
  IF kxs.err # NoErr THEN [contact |-> contact, err |-> kxs.err]
  ELSE IF Len(kxs.vals[2]) # SigLen
    THEN [contact |-> contact, err |-> "invalid signature length"]
  ELSE IF kx.err # NoErr THEN [contact |-> contact, err |-> kx.err]
  ELSE IF Len(kx.vals[1]) # KeyLen
    THEN [contact |-> contact, err |-> "invalid public key"]
  ELSE IF parseServer(c2.theirServer, testing) # NoErr
    THEN [contact |-> c2, err |-> parseServer(c2.theirServer, testing)]
  ELSE IF ~Verify(c1.theirPub, kxs.vals[1], kxs.vals[2])
    THEN [contact |-> c2, err |-> "invalid signature"]
  ELSE processKeyExchangeTail(c2, kx.vals)

\* Contact.processKeyExchange: the contact as the call leaves it, and the
\* error returned.  Each field is written where the source writes it.
processKeyExchange(contact, kxsBytes, testing) ==
  LET kxs == Unmarshal(SignedKeyExchangeDesc, kxsBytes) IN
  IF kxs.err # NoErr THEN [contact |-> contact, err |-> kxs.err]
  ELSE IF Len(kxs.vals[2]) # SigLen
    THEN [contact |-> contact, err |-> "invalid signature length"]
  ELSE
    LET kx == Unmarshal(KeyExchangeDesc, kxs.vals[1]) IN
    IF kx.err # NoErr THEN [contact |-> contact, err |-> kx.err]
    ELSE IF Len(kx.vals[1]) # KeyLen
      THEN [contact |-> contact, err |-> "invalid public key"]
    ELSE
      LET c1 == [contact EXCEPT !.theirPub = kx.vals[1]] IN
      IF ~Verify(c1.theirPub, kxs.vals[1], kxs.vals[2])
        THEN [contact |-> c1, err |-> "invalid signature"]
      ELSE
        LET c2 == [c1 EXCEPT !.theirServer = kx.vals[3]] IN
        IF parseServer(c2.theirServer, testing) # NoErr
          THEN [contact |-> c2, err |-> parseServer(c2.theirServer, testing)]
          ELSE processKeyExchangeTail(c2, kx.vals)

(***************************************************************************)
(* PEM armour of a handshake record (pem.Encode / pem.Decode): a text is   *)
(* a block label and the bytes armoured; a text holding no block has an    *)
(* empty label.                                                            *)
(***************************************************************************)

keyExchangePEM == "POND KEY EXCHANGE"

pemEncode(type, bytes) == [label |-> type, body |-> bytes]

NoPEM == [label |-> "", body |-> << >>]

\* A "process" step that clears isPending whatever processKeyExchange
\* returns.
processClick_ClearAlways(contact, kxin, testing) ==
  IF kxin.label # keyExchangePEM
    THEN [contact |-> contact, err |-> "No key exchange message found!"]
  ELSE
    [contact |-> [processKeyExchange(contact, kxin.body, testing).contact
                    EXCEPT !.isPending = FALSE],
     err |-> processKeyExchange(contact, kxin.body, testing).err]

\* The handling of a click on "process" in newContactUI (client.go:1860-1878)
\* as far as the contact goes: the contact it leaves and the error shown.
\* A text without a key exchange block leaves the contact alone; an error of
\* processKeyExchange leaves it as processKeyExchange left it; on success
\* the loop is left and isPending is cleared.
processClick(contact, kxin, testing) ==
  IF kxin.label # keyExchangePEM
    THEN [contact |-> contact, err |-> "No key exchange message found!"]
  ELSE
    LET r == processKeyExchange(contact, kxin.body, testing) IN
    IF r.err # NoErr THEN r
    ELSE [contact |-> [r.contact EXCEPT !.isPending = FALSE], err |-> NoErr]

(***************************************************************************)
(* Handshake inputs.  An honest record is what newKeyExchange returns.  A  *)
(* forged one is built field by field from a choice that says which gates  *)
(* of processKeyExchange it violates.                                      *)
(***************************************************************************)

\* Largest value the random source yields for a DH scalar element, a group
\* member or an id.
MaxRand == 2

Rand == 1 .. MaxRand

Scalar(r) == [i \in 1 .. KeyLen |-> r]

Choices ==
  [outer : {"ok", "bad"}, sig : {"ok", "short", "wrongkey"},
   inner : {"ok", "bad"}, pub : {"ok", "bad"}, server : {"ok", "bad"},
   group : {"ok", "bad"}, groupKey : {"ok", "bad"}, id : {"ok", "bad"},
   dh : {"ok", "bad"}]

Honest ==
  [outer |-> "ok", sig |-> "ok", inner |-> "ok", pub |-> "ok",
   server |-> "ok", group |-> "ok", groupKey |-> "ok", id |-> "ok",
   dh |-> "ok"]

OtherKey(k) == (k % NumKeys) + 1

Short(s) == SubSeq(s, 1, Len(s) - 1)

\* The record a forger holding key pair k (and, for "wrongkey", signing
\* with another one) builds for choice ch.
Forge(k, ch, r) ==
  LET c == Identity(k)
      kx == << IF ch.pub = "ok" THEN c.pub ELSE Short(c.pub),
               IF ch.id = "ok" THEN c.identityPublic
                               ELSE Short(c.identityPublic),
               IF ch.server = "ok" THEN c.server ELSE << 0, k >>,
               IF ch.dh = "ok" THEN ScalarBaseMult(Scalar(r))
                               ELSE Short(ScalarBaseMult(Scalar(r))),
               IF ch.group = "ok" THEN << c.groupPriv >> ELSE << >>,
               IF ch.groupKey = "ok" THEN << r >> ELSE << 0 >>,
               << c.generation >> >>
      whole == Marshal(KeyExchangeDesc, kx)
      inner == IF ch.inner = "ok" THEN whole ELSE Short(whole)
      full == Sign(IF ch.sig = "wrongkey" THEN OtherKey(k) ELSE k, inner)
      sig == IF ch.sig = "short" THEN Short(full) ELSE full
      outer == Marshal(SignedKeyExchangeDesc, << inner, sig >>)
  IN IF ch.outer = "ok" THEN outer ELSE Short(outer)

ProtoErrors ==
  {"proto: required field not set", "proto: illegal tag 0",
   "proto: bad wiretype", "proto: unexpected EOF"}

ErrClass(e) == IF e \in ProtoErrors THEN "malformed" ELSE e

\* The error of the earliest gate that choice ch violates.
EarliestGate(ch) ==
  IF ch.outer = "bad" THEN "malformed"
  ELSE IF ch.sig = "short" THEN "invalid signature length"
  ELSE IF ch.inner = "bad" THEN "malformed"
  ELSE IF ch.pub = "bad" THEN "invalid public key"
  ELSE IF ch.sig = "wrongkey" THEN "invalid signature"
  ELSE IF ch.server = "bad" THEN "invalid server address"
  ELSE IF ch.group = "bad" THEN "invalid group"
  ELSE IF ch.groupKey = "bad" THEN "invalid group key"
  ELSE IF ch.id = "bad" THEN "invalid public identity"
  ELSE IF ch.dh = "bad" THEN "invalid public DH value"
  ELSE NoErr

(***************************************************************************)
(* State.                                                                  *)
(***************************************************************************)

VARIABLES
  \* The session state owned by the session goroutine (client.go:78-139):
  contacts,         \* c.contacts: id -> Contact (with obj, the allocation
                    \* number of the Contact the map entry points to)
  allocated,        \* the number of Contacts allocated so far
  inbox,            \* c.inbox
  outbox,           \* c.outbox
  view,             \* where the session goroutine waits for its next event
  disk,             \* the last state handed to the state writer (c.save)
  unsealRuns,       \* history: for each contact object, how many times
                    \* the unseal loop (client.go:1880-1891) ran for it
  \* Shared with the network goroutine:
  queue,            \* c.queue: pointers to queuedMessages
  queueMutex,       \* c.queueMutex: 0 when free, else its holder
  messageSentChan,  \* c.messageSentChan, buffered, capacity 1
  \* Concurrent callers of enqueue:
  enqPc,            \* where each caller is in enqueue
  enqTmp,           \* the slice each caller read for its append
  enqSent,          \* the number of messages each caller has enqueued
  \* One application of a handshake record to a pending contact:
  hsStage,    \* "start", "generated", "tampered" or "applied"
  hsSender,   \* the key pair of the party that builds the record
  hsChoice,   \* the gates the record violates (Honest: none)
  hsRand,     \* what the sender's random source yields
  hsWire,     \* the record's bytes
  hsBefore,   \* the receiving contact before the record is processed
  hsContact,  \* the receiving contact
  hsErr,      \* the error shown by the "process" step
  \* The session goroutine, the state writer and the network goroutine
  \* around c.save and shutdown:
  ioTodo,      \* the statements the session goroutine has still to execute
               \* before it waits in nextEvent again (<< >>: it waits)
  ioMem,       \* the version of the state in memory (1: a fresh account)
  ioRevealed,  \* history: the version shown by kxout and by the outbox view
  ioClosed,    \* the channels that have been closed
  ioMade,      \* the channels that loadUI has made (the others are nil)
  wrPc,        \* stateWriter: "absent", "recv", "write" or "done"
  wrBuf,       \* the last version stateWriter received from writerChan
  wrFile,      \* the version in the state file
  netPc,       \* c.transact: "absent", "run" or "stopped"
  \* One message typed in composeUI, measured and sent:
  sz,          \* what was typed, what usageString and c.send made of it
  \* loadUI from the read of the state file to mainUI:
  ld,          \* the file, the key, the error and how far loadUI has come
  \* The events read by nextEvent and where they are handled:
  nv,          \* the view, the event carried to mainUI, what was read and dispatched
  \* A goroutine other than the session's that calls the exported Shutdown:
  xs           \* the statement of Shutdown it is at

ownerVars ==
  << contacts, allocated, inbox, outbox, view, disk, unsealRuns >>

sharedVars == << queue, queueMutex, messageSentChan >>

enqVars == << enqPc, enqTmp, enqSent >>

hsVars ==
  << hsStage, hsSender, hsChoice, hsRand, hsWire, hsBefore, hsContact, hsErr >>

ioVars ==
  << ioTodo, ioMem, ioRevealed, ioClosed, ioMade, wrPc, wrBuf, wrFile, netPc >>

pureVars == << sz, ld, nv, xs >>

\* sz while no message is being measured.
SzIdle == [stage |-> "idle"]

\* ld while loadUI is not followed.
LdIdle == [pc |-> "idle"]

\* nv while the dispatch of events is not followed.
NvIdle == [view |-> "idle"]

\* xs while no other goroutine calls Shutdown.
XsIdle == "absent"

\* The channels that loadUI makes before it starts the workers
\* (client.go:299-301).
LoadUIMade == {"writerChan", "writerDone", "fetchNowChan"}

vars == << ownerVars, sharedVars, enqVars, hsVars, ioVars, pureVars >>

\* Largest number of goroutines calling enqueue at once.
NumCallers == 2

\* Number of messages each of them enqueues.
MsgsPerCaller == 3

Callers == 1 .. NumCallers

\* The view of mainUI's own event loop.
MainView == [ui |-> "main", arg |-> 0]

\* What c.save hands to the state writer: the contacts, the inbox and the
\* outbox.
Snapshot(cs, in, out) == [contacts |-> cs, inbox |-> in, outbox |-> out]

(***************************************************************************)
(* The handshake on its own: party hsSender builds a record (honestly with *)
(* newKeyExchange, or forged), one element of the signed payload of an     *)
(* honest record may be changed in transit, and the other party pastes the *)
(* record into the "process" step of a pending contact of its own.         *)
(***************************************************************************)

\* The receiving party's pending contact, as newContactUI creates it.
ReceiverContact(k) ==
  newKeyExchange(Identity(OtherKey(k)), NewContact("peer", 1), Scalar(1), 1)

\* The session state is that after construction (no contact, no message);
\* the party, the record's violations and the random draw are any.
KxInit ==
  /\ contacts = << >>
  /\ allocated = 0
  /\ inbox = << >>
  /\ outbox = << >>
  /\ view = MainView
  /\ disk = Snapshot(<< >>, << >>, << >>)
  /\ unsealRuns = << >>
  /\ queue = << >>
  /\ queueMutex = 0
  /\ messageSentChan = << >>
  /\ enqPc = [p \in Callers |-> "call"]
  /\ enqTmp = [p \in Callers |-> << >>]
  /\ enqSent = [p \in Callers |-> 0]
  /\ hsStage = "start"
  /\ hsSender \in PrivKeys
  /\ hsChoice \in Choices
  /\ hsRand \in Rand
  /\ hsWire = << >>
  /\ hsBefore = ReceiverContact(hsSender)
  /\ hsContact = hsBefore
  /\ hsErr = NoErr
  /\ ioTodo = << >>
  /\ ioMem = 1
  /\ ioRevealed = [kxout |-> 0, showOutbox |-> 0]
  /\ ioClosed = {}
  /\ ioMade = LoadUIMade
  /\ wrPc = "recv"
  /\ wrBuf = 0
  /\ wrFile = 0
  /\ netPc = "run"
  /\ sz = SzIdle
  /\ ld = LdIdle
  /\ nv = NvIdle
  /\ xs = XsIdle

\* The sender's own contact for the receiver, after newKeyExchange.
SenderContact ==
  newKeyExchange(Identity(hsSender), NewContact("peer", 1), Scalar(hsRand),
                 hsRand)

KxGenerate ==
  /\ hsStage = "start"
  /\ hsChoice = Honest
  /\ hsWire' = SenderContact.kxsBytes
  /\ hsStage' = "generated"
  /\ UNCHANGED << hsSender, hsChoice, hsRand, hsBefore, hsContact, hsErr >>
  /\ UNCHANGED << ownerVars, sharedVars, enqVars, ioVars, pureVars >>

KxForge ==
  /\ hsStage = "start"
  /\ hsChoice # Honest
  /\ hsWire' = Forge(hsSender, hsChoice, hsRand)
  /\ hsStage' = "generated"
  /\ UNCHANGED << hsSender, hsChoice, hsRand, hsBefore, hsContact, hsErr >>
  /\ UNCHANGED << ownerVars, sharedVars, enqVars, ioVars, pureVars >>

\* The signed payload is field 1 of the envelope: its first element is the
\* third of the record.
SignedLen(wire) == wire[2]

KxTamper ==
  /\ hsStage = "generated"
  /\ hsChoice = Honest
  /\ \E pos \in 1 .. SignedLen(hsWire), val \in Byte :
       /\ val # hsWire[2 + pos]
       /\ hsWire' = [hsWire EXCEPT ![2 + pos] = val]
  /\ hsStage' = "tampered"
  /\ UNCHANGED << hsSender, hsChoice, hsRand, hsBefore, hsContact, hsErr >>
  /\ UNCHANGED << ownerVars, sharedVars, enqVars, ioVars, pureVars >>

KxApply ==
  /\ hsStage \in {"generated", "tampered"}
  /\ LET r == processClick(hsContact, pemEncode(keyExchangePEM, hsWire), FALSE)
     IN /\ hsContact' = r.contact
        /\ hsErr' = r.err
  /\ hsStage' = IF hsStage = "tampered" THEN "applied-tampered" ELSE "applied"
  /\ UNCHANGED << hsSender, hsChoice, hsRand, hsWire, hsBefore >>
  /\ UNCHANGED << ownerVars, sharedVars, enqVars, ioVars, pureVars >>

KxNext == KxGenerate \/ KxForge \/ KxTamper \/ KxApply

SpecKx == KxInit /\ [][KxNext]_vars

(***************************************************************************)
(* enqueue called from several goroutines at once (client.go:1176-1181).   *)
(* Lock and the deferred Unlock bracket the append, which reads the slice  *)
(* c.queue and then assigns the longer slice to it.                        *)
(***************************************************************************)

\* A Lock that returns whether or not the mutex is held.
MutexIgnored(m) == TRUE

\* sync.Mutex.Lock returns only when the mutex is free.
MutexFree(m) == m = 0

\* An enqueue that puts the message in front of the slice read.
enqueue_Prepend(q, m) == << m >> \o q

\* append(c.queue, m) on the slice read.
enqueue(q, m) == Append(q, m)

\* The message caller p enqueues next.
EnqMsg(p) == << p, enqSent[p] + 1 >>

EnqLock(p) ==
  /\ enqPc[p] = "call"
  /\ enqSent[p] < MsgsPerCaller
  /\ MutexFree(queueMutex)
  /\ queueMutex' = p
  /\ enqPc' = [enqPc EXCEPT ![p] = "locked"]
  /\ UNCHANGED << queue, messageSentChan, enqTmp, enqSent >>
  /\ UNCHANGED << ownerVars, hsVars, ioVars, pureVars >>

EnqLoad(p) ==
  /\ enqPc[p] = "locked"
  /\ enqTmp' = [enqTmp EXCEPT ![p] = queue]
  /\ enqPc' = [enqPc EXCEPT ![p] = "loaded"]
  /\ UNCHANGED << queue, queueMutex, messageSentChan, enqSent >>
  /\ UNCHANGED << ownerVars, hsVars, ioVars, pureVars >>

EnqStore(p) ==
  /\ enqPc[p] = "loaded"
  /\ queue' = enqueue(enqTmp[p], EnqMsg(p))
  /\ enqPc' = [enqPc EXCEPT ![p] = "stored"]
  /\ UNCHANGED << queueMutex, messageSentChan, enqTmp, enqSent >>
  /\ UNCHANGED << ownerVars, hsVars, ioVars, pureVars >>

EnqUnlock(p) ==
  /\ enqPc[p] = "stored"
  /\ queueMutex' = 0
  /\ enqPc' = [enqPc EXCEPT ![p] = "call"]
  /\ enqTmp' = [enqTmp EXCEPT ![p] = << >>]
  /\ enqSent' = [enqSent EXCEPT ![p] = @ + 1]
  /\ UNCHANGED << queue, messageSentChan >>
  /\ UNCHANGED << ownerVars, hsVars, ioVars, pureVars >>

EnqInit ==
  /\ contacts = << >>
  /\ allocated = 0
  /\ inbox = << >>
  /\ outbox = << >>
  /\ view = MainView
  /\ disk = Snapshot(<< >>, << >>, << >>)
  /\ unsealRuns = << >>
  /\ queue = << >>
  /\ queueMutex = 0
  /\ messageSentChan = << >>
  /\ enqPc = [p \in Callers |-> "call"]
  /\ enqTmp = [p \in Callers |-> << >>]
  /\ enqSent = [p \in Callers |-> 0]
  /\ hsStage = "idle"
  /\ hsSender = 1
  /\ hsChoice = Honest
  /\ hsRand = 1
  /\ hsWire = << >>
  /\ hsBefore = NewContact("peer", 1)
  /\ hsContact = NewContact("peer", 1)
  /\ hsErr = NoErr
  /\ ioTodo = << >>
  /\ ioMem = 1
  /\ ioRevealed = [kxout |-> 0, showOutbox |-> 0]
  /\ ioClosed = {}
  /\ ioMade = LoadUIMade
  /\ wrPc = "recv"
  /\ wrBuf = 0
  /\ wrFile = 0
  /\ netPc = "run"
  /\ sz = SzIdle
  /\ ld = LdIdle
  /\ nv = NvIdle
  /\ xs = XsIdle

EnqNext ==
  \E p \in Callers : EnqLock(p) \/ EnqLoad(p) \/ EnqStore(p) \/ EnqUnlock(p)

SpecEnq == EnqInit /\ [][EnqNext]_vars

(***************************************************************************)
(* Properties of enqueue (checked under SpecEnq).                          *)
(***************************************************************************)

\* The number of entries of q equal to m.
Occurrences(q, m) == Cardinality({i \in 1 .. Len(q) : q[i] = m})

\* Caller p's k-th message has been appended (its enqueue has stored the
\* longer slice, whether or not it has unlocked yet).
Appended(p, k) ==
  \/ k <= enqSent[p]
  \/ k = enqSent[p] + 1 /\ enqPc[p] = "stored"

\* The number of appends performed so far.
RECURSIVE AppendsUpTo(_)
AppendsUpTo(p) ==
  IF p = 0 THEN 0
  ELSE AppendsUpTo(p - 1)
       + enqSent[p] + (IF enqPc[p] = "stored" THEN 1 ELSE 0)

IsPrefix(q, r) == Len(q) <= Len(r) /\ SubSeq(r, 1, Len(q)) = q

\* C8: under every interleaving of the callers of enqueue, the queue holds
\* exactly as many entries as appends were performed, every message whose
\* append was performed occurs in it exactly once and no other message
\* occurs in it, and at most one caller is between Lock and Unlock.
C8_ExactlyOnce ==
  /\ Len(queue) = AppendsUpTo(NumCallers)
  /\ \A p \in Callers : \A k \in 1 .. MsgsPerCaller :
       Occurrences(queue, << p, k >>) = IF Appended(p, k) THEN 1 ELSE 0
  /\ Cardinality({p \in Callers : enqPc[p] # "call"}) <= 1

\* All N callers have returned from all their calls and the queue holds
\* all their messages.
C8_Witness ==
  /\ \A p \in Callers : enqSent[p] = MsgsPerCaller /\ enqPc[p] = "call"
  /\ Len(queue) = NumCallers * MsgsPerCaller

\* C9: a step of enqueue leaves the entries already in the queue where they
\* are (the queue before the step is a prefix of the queue after it), and
\* the messages of one caller are in the queue in the order in which that
\* caller enqueued them.
C9_AppendOnly ==
  /\ [][IsPrefix(queue, queue')]_vars
  /\ [](\A i, j \in 1 .. Len(queue) :
          i < j /\ queue[i][1] = queue[j][1] => queue[i][2] < queue[j][2])

\* The calls of two callers were interleaved: a message of another caller
\* lies between the two messages of one caller.
C9_Witness ==
  \E i, j, k \in 1 .. Len(queue) :
    /\ i < j /\ j < k
    /\ queue[i][1] = queue[k][1]
    /\ queue[j][1] # queue[i][1]

(***************************************************************************)
(* Properties of the handshake (checked under SpecKx).                     *)
(***************************************************************************)

HsApplied == hsStage \in {"applied", "applied-tampered"}

\* The positions, in a signed payload b read from index i, of the content
\* bytes of its length-delimited fields (the other positions hold tags,
\* lengths and varints).
RECURSIVE ContentPositionsFrom(_, _)
ContentPositionsFrom(b, i) ==
  IF i > Len(b) THEN {}
  ELSE IF b[i] % 4 = 2
    THEN (i + 2 .. i + 1 + b[i + 1])
         \cup ContentPositionsFrom(b, i + 2 + b[i + 1])
    ELSE ContentPositionsFrom(b, i + 2)

\* The signed payload of the honest record, before it was changed.
HonestSigned == Unmarshal(SignedKeyExchangeDesc, SenderContact.kxsBytes).vals[1]

\* The position in the signed payload of the byte that was changed.
TamperPos ==
  CHOOSE pos \in 1 .. Len(HonestSigned) : hsWire[2 + pos] # HonestSigned[pos]

\* C1 (as claimed): whenever the process step reports an error, every field
\* of the contact has the value it had before the call.
C1_AllOrNothing == HsApplied /\ hsErr # NoErr => hsContact = hsBefore

\* C2 (as claimed): a record with one byte of its signed payload changed is
\* rejected with "invalid signature" and the contact is not mutated.
C2_TamperGivesInvalidSignature ==
  hsStage = "applied-tampered" =>
    hsErr = "invalid signature" /\ hsContact = hsBefore

\* C2 (amended): a record with one byte of its signed payload changed is
\* always rejected and the contact stays pending; the error is "invalid
\* signature" when the byte is a content byte of a length-delimited field,
\* and otherwise "invalid signature", a malformed-payload error or "invalid
\* public key", never the error of a later gate; no field of the contact
\* other than theirPub is written, and theirPub only when the error is
\* "invalid signature".
C2_TamperRejected ==
  hsStage = "applied-tampered" =>
    /\ ErrClass(hsErr)
         \in {"malformed", "invalid public key", "invalid signature"}
    /\ TamperPos \in ContentPositionsFrom(HonestSigned, 1)
         => hsErr = "invalid signature"
    /\ hsContact.isPending
    /\ hsContact = [hsBefore EXCEPT !.theirPub = hsContact.theirPub]
    /\ hsContact.theirPub # hsBefore.theirPub => hsErr = "invalid signature"

\* A tag byte was changed and the payload no longer parses.
C2_Witness ==
  /\ hsStage = "applied-tampered"
  /\ TamperPos \notin ContentPositionsFrom(HonestSigned, 1)
  /\ ErrClass(hsErr) = "malformed"

\* C3: the record one party's newKeyExchange returns, processed by the
\* other party on a pending contact, is accepted, the contact is no longer
\* pending, and it records the sender's public key, identity value, server,
\* generation and group member key and the public value of the DH scalar
\* the sender keeps for it.
C3_RoundTrip ==
  hsStage = "applied" /\ hsChoice = Honest =>
    /\ hsErr = NoErr
    /\ ~hsContact.isPending
    /\ hsContact.theirPub = Identity(hsSender).pub
    /\ hsContact.theirIdentityPublic = Identity(hsSender).identityPublic
    /\ hsContact.theirServer = Identity(hsSender).server
    /\ hsContact.generation = Identity(hsSender).generation
    /\ hsContact.theirCurrentDHPublic
         = ScalarBaseMult(SenderContact.lastDHPrivate)
    /\ hsContact.myGroupKey = SenderContact.groupKey

C3_Witness ==
  hsStage = "applied" /\ hsChoice = Honest /\ hsBefore.isPending

\* C4: the error reported is that of the earliest gate the record violates,
\* in the order envelope, signature length, payload, public key length,
\* signature, server address, group, group key, identity length, DH length.
C4_GateOrder == hsStage = "applied" =>
                  ErrClass(hsErr) = EarliestGate(hsChoice)

\* A record with a wrong signature, a bad address and a short DH value.
C4_Witness ==
  /\ hsStage = "applied"
  /\ hsChoice.sig = "wrongkey" /\ hsChoice.server = "bad" /\ hsChoice.dh = "bad"
  /\ hsErr = "invalid signature"

(***************************************************************************)
(* The session: the goroutine that owns the client state handles one event *)
(* at a time (a click from the user interface, a message fetched by the    *)
(* network goroutine, or the id of a message that the network goroutine    *)
(* has sent), and the network goroutine transmits what is in the queue.    *)
(***************************************************************************)

\* Largest number of contacts created in a session.
MaxContacts == 1

\* Largest number of messages in the inbox.
MaxInbox == 1

\* Largest number of messages in the outbox.
MaxOutbox == 2

\* The names the user types for contacts.
Names == 1 .. MaxContacts

\* The key pair of this client (c.priv, c.pub); its peers hold the others.
Me == 1

\* time.Time{}: the zero time.
ZeroTime == 0

\* time.Now(): every reading of the clock is later than the zero time;
\* the readings are not told apart.
Now == 1

\* What c.rand yields for an id, one 8-byte value per draw: a value that
\* is not zero, at once or (for the even ones) after a zero.
Draws == {IF n % 2 = 1 THEN << n >> ELSE << 0, n >> : n \in Rand}

\* client.randId if it returned its first draw whatever it is.
randId_First(draws) == Head(draws)

\* client.randId: the first draw that is not zero.
RECURSIVE randId(_)
randId(draws) ==
  IF Head(draws) # 0 THEN Head(draws) ELSE randId(Tail(draws))

\* An optional value (a nil or set pointer): << >> or << x >>.
None == << >>

Some(x) == << x >>

\* The index of the first element of list with the given id, 0 if none
\* (the loops "for _, candidate := range ... if candidate.id == id").
RECURSIVE FirstFrom(_, _, _)
FirstFrom(list, id, i) ==
  IF i > Len(list) THEN 0
  ELSE IF list[i].id = id THEN i
  ELSE FirstFrom(list, id, i + 1)

First(list, id) == FirstFrom(list, id, 1)

\* The Indicator values, in the order queued, sent, acknowledged.
indicatorRed == 1

indicatorYellow == 2

indicatorGreen == 3

\* An indicator that looks at the sent time first.
indicator_SentFirst(qm) ==
  IF qm.sent # ZeroTime THEN indicatorYellow
  ELSE IF qm.acked # ZeroTime THEN indicatorGreen
  ELSE indicatorRed

\* queuedMessage.indicator.
indicator(qm) ==
  IF qm.acked # ZeroTime THEN indicatorGreen
  ELSE IF qm.sent # ZeroTime THEN indicatorYellow
  ELSE indicatorRed

\* A pond.Message.
Message(id, time, body, inReplyTo, myNextDh) ==
  [id |-> id, time |-> time, body |-> body, inReplyTo |-> inReplyTo,
   myNextDh |-> myNextDh]

\* Largest body, in bytes, whose message is not over the size limit.
MaxBody == 1

\* The bodies the user types: none, one that fits, one that is too large.
Bodies == {[i \in 1 .. n |-> 32] : n \in 0 .. MaxBody + 1}

\* c.send: the message is refused when it is too large; otherwise a
\* queuedMessage for it is put in the queue and in the outbox.  The result
\* is the error, the outbox and the queue (whose entries are the positions
\* in the outbox of the messages they point to).
send(out, q, to, message, created) ==
  IF Len(message.body) > MaxBody
    THEN [err |-> "message too large", outbox |-> out, queue |-> q]
  ELSE
    LET qm == [id |-> message.id, to |-> to.id, server |-> to.theirServer,
               created |-> created, sent |-> ZeroTime, acked |-> ZeroTime,
               message |-> message]
    IN [err |-> NoErr,
        outbox |-> Append(out, qm),
        queue |-> enqueue(q, Len(out) + 1)]

\* c.processMessageSent without the outbox: the message with that id gets
\* its sent time.
processMessageSent(out, id, time) ==
  LET i == First(out, id) IN
  IF i = 0 THEN out ELSE [out EXCEPT ![i].sent = time]

\* The ciphertext of a message, and bytes that are not the ciphertext of
\* any message.
Seal(message) == [valid |-> TRUE, plain |-> message]

Garbage == [valid |-> FALSE, plain |-> Message(0, 0, << >>, None, ZeroKey)]

\* The outbox after a message with that reference was unsealed: the
\* message referred to, if any, gets its acked time.
Acknowledge(out, inReplyTo, time) ==
  IF inReplyTo = None THEN out
  ELSE LET i == First(out, inReplyTo[1]) IN
       IF i = 0 THEN out ELSE [out EXCEPT ![i].acked = time]

\* The DH ratchet of a contact after a message of its peer was unsealed
\* (spec 3 and 9): a next DH public value that the contact does not hold
\* yet advances the ratchet.  The peer's current value becomes its last one
\* and the new value its current one; the current private scalar becomes
\* the previous one and fresh, which c.rand yields, the current one.
advanceRatchet(contact, myNextDh, fresh) ==
  IF myNextDh = contact.theirCurrentDHPublic THEN contact
  ELSE [contact EXCEPT !.theirLastDHPublic = contact.theirCurrentDHPublic,
                       !.theirCurrentDHPublic = myNextDh,
                       !.lastDHPrivate = contact.currentDHPrivate,
                       !.currentDHPrivate = fresh]

\* c.unsealMessage if it kept the ciphertext of a message it has decoded.
unsealMessage_KeepSealed(msg, contact, out, time, fresh) ==
  LET sealed == msg.sealed[1] IN
  IF ~sealed.valid
    THEN [ok |-> FALSE, msg |-> msg, contact |-> contact, outbox |-> out]
  ELSE [ok |-> TRUE,
        msg |-> [msg EXCEPT !.message = Some(sealed.plain)],
        contact |-> advanceRatchet(contact, sealed.plain.myNextDh, fresh),
        outbox |-> Acknowledge(out, sealed.plain.inReplyTo, time)]

\* c.unsealMessage on an inbox message whose sender, contact, is no longer
\* pending: whether it could be unsealed, the message and the contact as
\* they are left, and the outbox.
unsealMessage(msg, contact, out, time, fresh) ==
  LET sealed == msg.sealed[1] IN
  IF ~sealed.valid
    THEN [ok |-> FALSE, msg |-> msg, contact |-> contact, outbox |-> out]
  ELSE [ok |-> TRUE,
        msg |-> [msg EXCEPT !.message = Some(sealed.plain), !.sealed = None],
        contact |-> advanceRatchet(contact, sealed.plain.myNextDh, fresh),
        outbox |-> Acknowledge(out, sealed.plain.inReplyTo, time)]

\* c.processFetch: a message fetched for a pending contact is kept sealed;
\* one for another contact is unsealed, and dropped if that fails.  The
\* result is the inbox, the outbox and the contacts.
processFetch(in, out, cs, from, sealed, id, time, fresh) ==
  LET msg == [id |-> id, read |-> FALSE, receivedTime |-> time,
              from |-> from, sealed |-> Some(sealed), acked |-> FALSE,
              message |-> None]
  IN IF cs[from].isPending
       THEN [inbox |-> Append(in, msg), outbox |-> out, contacts |-> cs]
     ELSE LET r == unsealMessage(msg, cs[from], out, time, fresh) IN
          IF r.ok THEN [inbox |-> Append(in, r.msg), outbox |-> r.outbox,
                        contacts |-> [cs EXCEPT ![from] = r.contact]]
          ELSE [inbox |-> in, outbox |-> out, contacts |-> cs]

\* The loop of newContactUI that unseals the pending messages of a contact
\* (client.go:1880-1891), from inbox position i on: a message that cannot
\* be unsealed stays as it is.  The result is the inbox, the outbox and
\* the contact.
RECURSIVE UnsealFrom(_, _, _, _, _, _, _)
UnsealFrom(in, out, contact, id, i, time, fresh) ==
  IF i > Len(in) THEN [inbox |-> in, outbox |-> out, contact |-> contact]
  ELSE IF in[i].message = None /\ in[i].from = id
    THEN LET r == unsealMessage(in[i], contact, out, time, fresh) IN
         UnsealFrom([in EXCEPT ![i] = r.msg], r.outbox, r.contact, id, i + 1,
                    time, fresh)
  ELSE UnsealFrom(in, out, contact, id, i + 1, time, fresh)

\* A contact with the serial number of its allocation: two contacts are
\* the same object exactly when they have the same serial number.
Allocate(n, contact) == [obj |-> n] @@ contact

\* showContact for a contact that enters the key exchange view whether or
\* not the contact is pending.
showContact_Always(cs, id) == [ui |-> "newContact2", arg |-> id]

\* client.showContact: a pending contact is handed to newContactUI, which
\* waits for a click on "process"; any other is displayed and the main
\* loop waits for the next event.
showContact(cs, id) ==
  IF cs[id].isPending THEN [ui |-> "newContact2", arg |-> id] ELSE MainView

\* client.showOutbox: the first message with that id is displayed.
showOutbox(out, id) == [ui |-> "outbox", arg |-> First(out, id)]

\* The key pair of the peer whose records the user pastes.
Peer == 2

\* The texts the user pastes into "kxin": nothing of use, or a record made
\* by the peer, honestly or violating one gate of processKeyExchange.
Pasted ==
  {Honest,
   [Honest EXCEPT !.sig = "wrongkey"],
   [Honest EXCEPT !.server = "bad"],
   [Honest EXCEPT !.id = "bad"],
   [Honest EXCEPT !.dh = "bad"]}

KxInputs ==
  {NoPEM}
  \cup {pemEncode(keyExchangePEM, Forge(Peer, ch, 1)) : ch \in Pasted}

\* The goroutine is in its event loop (it has not panicked).
Running == view.ui # "crashed"

Crashed == [ui |-> "crashed", arg |-> 0]

\* The goroutine is in the select {} of ShutdownAndSuspend
\* (client.go:2283).
Suspended == [ui |-> "suspended", arg |-> 0]

\* The goroutine takes events: it has neither panicked nor suspended.
Serving == Running /\ view # Suspended

\* What stays as it is in every step of the session.
idleVars == << enqVars, hsVars, ioVars, pureVars >>

\* c.save.
Save(cs, in, out) == disk' = Snapshot(cs, in, out)

\* A click on "newcontact": newContactUI(nil) waits for the name.
ClickNewContact ==
  /\ Serving
  /\ view' = [ui |-> "newContact", arg |-> 0]
  /\ UNCHANGED << contacts, allocated, inbox, outbox, disk, unsealRuns >>
  /\ UNCHANGED << sharedVars, idleVars >>

\* The name check of newContactUI if it passed every name.
nameIsUnique_Always(cs, name) == TRUE

\* The name check of newContactUI (client.go:1801-1811): no contact has
\* that name.
nameIsUnique(cs, name) == \A id \in DOMAIN cs : cs[id].name # name

\* A click on "create" in newContactUI (client.go:1785-1843): a name in use
\* is refused; otherwise the contact is made, stored under its id, given
\* its key exchange record and saved, and the view waits for "process".
\* The names offered are names, and max is the most contacts made.
Create(names, max) ==
  /\ Serving
  /\ view.ui = "newContact"
  /\ \E name \in names, d \in Draws :
       IF ~nameIsUnique(contacts, name)
         THEN UNCHANGED ownerVars
       ELSE
         LET id == randId(d)
             r == d[Len(d)]
             contact == newKeyExchange(Identity(Me),
                          Allocate(allocated + 1, NewContact(name, id)),
                          Scalar(r), r)
             cs == [i \in DOMAIN contacts \cup {id} |->
                      IF i = id THEN contact ELSE contacts[i]]
         IN /\ allocated < max
            /\ contacts' = cs
            /\ allocated' = allocated + 1
            /\ Save(cs, inbox, outbox)
            /\ view' = [ui |-> "newContact2", arg |-> id]
            /\ unsealRuns' = Append(unsealRuns, 0)
            /\ UNCHANGED << inbox, outbox >>
  /\ UNCHANGED << sharedVars, idleVars >>

ClickCreate == Create(Names, MaxContacts)

\* A click on an entry of the contacts list (mainUI, client.go:534-538).
ClickContact ==
  /\ Serving
  /\ \E id \in DOMAIN contacts : view' = showContact(contacts, id)
  /\ UNCHANGED << contacts, allocated, inbox, outbox, disk, unsealRuns >>
  /\ UNCHANGED << sharedVars, idleVars >>

\* The effect of a click on "process" if the loop that unseals the pending
\* messages were entered after a rejected record as well.
ProcessEffect_UnsealOnError(id, r, fresh) ==
  /\ contacts' =
       [contacts EXCEPT ![id] =
          UnsealFrom(inbox, outbox, r.contact, id, 1, Now, fresh).contact]
  /\ unsealRuns' = [unsealRuns EXCEPT ![contacts[id].obj] = @ + 1]
  /\ inbox' = UnsealFrom(inbox, outbox, r.contact, id, 1, Now, fresh).inbox
  /\ outbox' = UnsealFrom(inbox, outbox, r.contact, id, 1, Now, fresh).outbox
  /\ IF r.err # NoErr
       THEN UNCHANGED << disk, view >>
     ELSE /\ Save(contacts', inbox', outbox')
          /\ view' = showContact(contacts', id)

\* The effect of a click on "process" if a text that was rejected made the
\* client generate the key exchange record of the contact anew, with another
\* DH private scalar.
ProcessEffect_Regenerate(id, r, fresh) ==
  IF r.err # NoErr
    THEN /\ contacts' =
              [contacts EXCEPT ![id] =
                 newKeyExchange(Identity(Me), r.contact,
                                Scalar((r.contact.lastDHPrivate[1] % MaxRand) + 1),
                                (r.contact.lastDHPrivate[1] % MaxRand) + 1)]
         /\ UNCHANGED << inbox, outbox, disk, view, unsealRuns >>
  ELSE /\ contacts' =
            [contacts EXCEPT ![id] =
               UnsealFrom(inbox, outbox, r.contact, id, 1, Now, fresh).contact]
       /\ unsealRuns' = [unsealRuns EXCEPT ![contacts[id].obj] = @ + 1]
       /\ inbox' =
            UnsealFrom(inbox, outbox, r.contact, id, 1, Now, fresh).inbox
       /\ outbox' =
            UnsealFrom(inbox, outbox, r.contact, id, 1, Now, fresh).outbox
       /\ Save(contacts', inbox', outbox')
       /\ view' = showContact(contacts', id)

\* A click on "process" in newContactUI (client.go:1846-1895), r being what
\* processClick made of the contact and fresh what c.rand yields if the
\* ratchet advances.  After an error the loop goes on with the contact as
\* processKeyExchange left it; after a success the pending messages of the
\* contact are unsealed, the state is saved and the contact is shown.
ProcessEffect(id, r, fresh) ==
  IF r.err # NoErr
    THEN /\ contacts' = [contacts EXCEPT ![id] = r.contact]
         /\ UNCHANGED << inbox, outbox, disk, view, unsealRuns >>
  ELSE /\ contacts' =
            [contacts EXCEPT ![id] =
               UnsealFrom(inbox, outbox, r.contact, id, 1, Now, fresh).contact]
       /\ unsealRuns' = [unsealRuns EXCEPT ![contacts[id].obj] = @ + 1]
       /\ inbox' =
            UnsealFrom(inbox, outbox, r.contact, id, 1, Now, fresh).inbox
       /\ outbox' =
            UnsealFrom(inbox, outbox, r.contact, id, 1, Now, fresh).outbox
       /\ Save(contacts', inbox', outbox')
       /\ view' = showContact(contacts', id)

ClickProcess ==
  /\ Serving
  /\ view.ui = "newContact2"
  /\ \E kxin \in KxInputs, fresh \in Rand :
       ProcessEffect(view.arg, processClick(contacts[view.arg], kxin, FALSE),
                     Scalar(fresh))
  /\ UNCHANGED << allocated, sharedVars, idleVars >>

\* The body composeUI sends if it sent what was typed as it is.
composeBody_Raw(typed) == typed

\* The body composeUI sends (client.go:1131-1135): what was typed, or one
\* space (byte 32) if nothing was: bodies without bytes are kept for
\* acknowledgements.
composeBody(typed) == IF Len(typed) = 0 THEN << 32 >> ELSE typed

\* The next DH public value composeUI embeds (client.go:1123-1124).
composeNextDh(to) == ScalarBaseMult(to.currentDHPrivate)

\* A click on "compose": composeUI(nil).
ClickCompose ==
  /\ Serving
  /\ view' = [ui |-> "compose", arg |-> 0]
  /\ UNCHANGED << contacts, allocated, inbox, outbox, disk, unsealRuns >>
  /\ UNCHANGED << sharedVars, idleVars >>

\* The inbox with the message replied to marked acked whatever send said.
replyAcked_BeforeCheck(in, inReplyTo, err) ==
  IF inReplyTo = 0 THEN in ELSE [in EXCEPT ![inReplyTo].acked = TRUE]

\* The inbox after composeUI looked at the error of send
\* (client.go:1147-1155): on an error the loop continues with nothing
\* written; otherwise the message replied to, if any, is marked acked.
replyAcked(in, inReplyTo, err) ==
  IF err # NoErr \/ inReplyTo = 0 THEN in
  ELSE [in EXCEPT ![inReplyTo].acked = TRUE]

\* A click on "send" in composeUI (client.go:1110-1160), with a recipient
\* chosen among the contacts.  Replying to a message that is still sealed
\* dereferences its nil message.  A message that send refuses leaves the
\* view waiting; otherwise the message replied to is marked acked, the state
\* is saved and the new message is shown.
ClickSend ==
  /\ Serving
  /\ view.ui = "compose"
  /\ MutexFree(queueMutex)
  /\ Len(outbox) < MaxOutbox
  /\ \E toId \in DOMAIN contacts, typed \in Bodies, d \in Draws :
       LET to == contacts[toId]
           inReplyTo == view.arg
           body == composeBody(typed)
           id == randId(d)
       IN IF inReplyTo # 0 /\ inbox[inReplyTo].message = None
            THEN /\ view' = Crashed
                 /\ UNCHANGED << inbox, outbox, disk, queue >>
          ELSE
            LET replyToId == IF inReplyTo = 0 THEN None
                             ELSE Some(inbox[inReplyTo].message[1].id)
                r == send(outbox, queue, to,
                          Message(id, Now, body, replyToId,
                                  composeNextDh(to)),
                          Now)
                in == replyAcked(inbox, inReplyTo, r.err)
            IN IF r.err # NoErr
                 THEN /\ inbox' = in
                      /\ UNCHANGED << outbox, disk, queue, view >>
               ELSE /\ outbox' = r.outbox
                    /\ queue' = r.queue
                    /\ inbox' = in
                    /\ Save(contacts, in, r.outbox)
                    /\ view' = showOutbox(r.outbox, id)
  /\ UNCHANGED << contacts, allocated, queueMutex, messageSentChan >>
  /\ UNCHANGED << unsealRuns, idleVars >>

\* An outbox message has an entry in the outbox list when it has a body
\* (client.go:492-497).
outboxListed(msg) == Len(msg.message.body) > 0

\* A click on an entry of the outbox list: the messages listed are those
\* with a body (client.go:492-497, 528-532).
ClickOutbox ==
  /\ Serving
  /\ \E i \in 1 .. Len(outbox) :
       /\ outboxListed(outbox[i])
       /\ view' = showOutbox(outbox, outbox[i].id)
  /\ UNCHANGED << contacts, allocated, inbox, outbox, disk, unsealRuns >>
  /\ UNCHANGED << sharedVars, idleVars >>

\* An inbox message has an entry in the inbox list: a sealed one while its
\* contact is pending, an unsealed one when it has a body
\* (client.go:470-486, 1883-1885).
Listed(msg) ==
  IF msg.message = None THEN contacts[msg.from].isPending
  ELSE Len(msg.message[1].body) > 0

\* The inbox if showInbox marked the message read whether or not it is
\* unsealed.
markRead_Sealed(in, j) == [in EXCEPT ![j].read = TRUE]

\* The inbox after showInbox looked at message j (client.go:1214-1218): an
\* unsealed message that is unread is marked read.
markRead(in, j) ==
  IF in[j].message # None /\ ~in[j].read
    THEN [in EXCEPT ![j].read = TRUE]
  ELSE in

\* A click on an entry of the inbox list: showInbox (client.go:1203-1218)
\* marks the first message with that id read, and saves, when it is
\* unsealed and unread.
ClickInbox ==
  /\ Serving
  /\ \E i \in 1 .. Len(inbox) :
       /\ Listed(inbox[i])
       /\ LET j == First(inbox, inbox[i].id)
              in == markRead(inbox, j)
          IN /\ view' = [ui |-> "inbox", arg |-> j]
             /\ IF in # inbox
                  THEN inbox' = in /\ Save(contacts, in, outbox)
                  ELSE UNCHANGED << inbox, disk >>
  /\ UNCHANGED << contacts, allocated, outbox, unsealRuns >>
  /\ UNCHANGED << sharedVars, idleVars >>

\* The next DH public value sendAck would embed if it took the scalar
\* generated for the key exchange.
sendAckNextDh_Last(to) == ScalarBaseMult(to.lastDHPrivate)

\* The next DH public value sendAck embeds (client.go:1186-1187).
sendAckNextDh(to) == ScalarBaseMult(to.currentDHPrivate)

\* c.send returning an error other than that of the size check (signing
\* the message can fail): nothing is added to the outbox or the queue.
sendFault(out, q) == [err |-> "fault", outbox |-> out, queue |-> q]

\* A click on "ack" in showInbox (client.go:1427-1433): the message is
\* marked acked and sendAck (client.go:1183-1201) sends a message without
\* body that refers to it; an error of send, which a message without body
\* cannot get from the size check, is only logged (client.go:1198-1200).
\* sendAck dereferences the nil message of a message that is still sealed.
ClickAck ==
  /\ Serving
  /\ view.ui = "inbox"
  /\ MutexFree(queueMutex)
  /\ Len(outbox) < MaxOutbox
  /\ \E d \in Draws, fault \in BOOLEAN :
       LET msg == inbox[view.arg]
           to == contacts[msg.from]
       IN /\ inbox' = [inbox EXCEPT ![view.arg].acked = TRUE]
          /\ IF msg.message = None
               THEN view' = Crashed /\ UNCHANGED << outbox, queue >>
             ELSE LET r == IF fault THEN sendFault(outbox, queue)
                           ELSE send(outbox, queue, to,
                                     Message(randId(d), Now, << >>,
                                       Some(msg.message[1].id),
                                       sendAckNextDh(to)),
                                     Now)
                  IN /\ outbox' = r.outbox
                     /\ queue' = r.queue
                     /\ UNCHANGED view
  /\ UNCHANGED << contacts, allocated, disk, unsealRuns >>
  /\ UNCHANGED << queueMutex, messageSentChan, idleVars >>

\* A click on "reply" in showInbox: composeUI(msg).
ClickReply ==
  /\ Serving
  /\ view.ui = "inbox"
  /\ view' = [ui |-> "compose", arg |-> view.arg]
  /\ UNCHANGED << contacts, allocated, inbox, outbox, disk, unsealRuns >>
  /\ UNCHANGED << sharedVars, idleVars >>

\* The network goroutine has taken outbox message i from the queue.
Transmitted(i) == \A k \in 1 .. Len(queue) : queue[k] # i

\* What the home server may hold for this client from the contact with
\* that id: bytes that do not unseal, a message with a body, or the
\* acknowledgement of a message that was transmitted to that contact.  The
\* next DH public value they carry is one that the key exchange record of
\* the peer, made with the scalar 1, did not hold.
Fetched(from) ==
  {Garbage}
  \cup {Seal(Message(1, Now, << 32 >>, None, ScalarBaseMult(Scalar(MaxRand))))}
  \cup {Seal(Message(1, Now, << >>, Some(outbox[i].id),
                     ScalarBaseMult(Scalar(MaxRand)))) :
          i \in {k \in 1 .. Len(outbox) :
                   outbox[k].to = from /\ Transmitted(k)}}

\* The network goroutine transmits the message at the head of the queue,
\* takes it from the queue and reports its id on messageSentChan (which
\* holds one id).
NetTransmit ==
  /\ MutexFree(queueMutex)
  /\ queue # << >>
  /\ Len(messageSentChan) < 1
  /\ queue' = Tail(queue)
  /\ messageSentChan' = Append(messageSentChan, outbox[Head(queue)].id)
  /\ UNCHANGED << ownerVars, queueMutex, idleVars >>

\* nextEvent receives an id from messageSentChan (client.go:1908-1910).
RecvMessageSent ==
  /\ Serving
  /\ messageSentChan # << >>
  /\ LET out == processMessageSent(outbox, Head(messageSentChan), Now)
     IN outbox' = out /\ Save(contacts, inbox, out)
  /\ messageSentChan' = Tail(messageSentChan)
  /\ UNCHANGED << contacts, allocated, inbox, view, unsealRuns >>
  /\ UNCHANGED << queue, queueMutex, idleVars >>

\* nextEvent receives a fetched message from newMessageChan
\* (client.go:1905-1907).
RecvNewMessage ==
  /\ Serving
  /\ Len(inbox) < MaxInbox
  /\ \E from \in DOMAIN contacts, d \in Draws :
       \E sealed \in Fetched(from) :
         LET r == processFetch(inbox, outbox, contacts, from, sealed,
                               randId(d), Now, Scalar(d[Len(d)]))
         IN /\ inbox' = r.inbox
            /\ outbox' = r.outbox
            /\ contacts' = r.contacts
            /\ IF r.inbox # inbox
                 THEN Save(r.contacts, r.inbox, r.outbox)
                 ELSE UNCHANGED disk
  /\ UNCHANGED << allocated, view, unsealRuns >>
  /\ UNCHANGED << sharedVars, idleVars >>

\* A click on "Identity" or "Activity Log" in the client list: the event is
\* wanted (client.go:1924-1926), so the loop that read it returns it to
\* mainUI, which shows the page (538-549; identityUI, 793-807, returns
\* nil) and waits for the next event in its own loop.
ClickClientUI ==
  /\ Serving
  /\ view' = MainView
  /\ UNCHANGED << contacts, allocated, inbox, outbox, disk, unsealRuns >>
  /\ UNCHANGED << sharedVars, idleVars >>

\* nextEvent finds the channel of the ui's events closed
\* (client.go:1900-1904): ShutdownAndSuspend (2277-2284) saves the state,
\* the channels having been made, closes the channels and stays in its
\* select {}.
EventsClosed ==
  /\ Serving
  /\ Save(contacts, inbox, outbox)
  /\ view' = Suspended
  /\ UNCHANGED << contacts, allocated, inbox, outbox, unsealRuns >>
  /\ UNCHANGED << sharedVars, idleVars >>

\* The state after NewClient and loadUI for a new account.
Init ==
  /\ contacts = << >>
  /\ allocated = 0
  /\ inbox = << >>
  /\ outbox = << >>
  /\ view = MainView
  /\ disk = Snapshot(<< >>, << >>, << >>)
  /\ unsealRuns = << >>
  /\ queue = << >>
  /\ queueMutex = 0
  /\ messageSentChan = << >>
  /\ enqPc = [p \in Callers |-> "call"]
  /\ enqTmp = [p \in Callers |-> << >>]
  /\ enqSent = [p \in Callers |-> 0]
  /\ hsStage = "idle"
  /\ hsSender = 1
  /\ hsChoice = Honest
  /\ hsRand = 1
  /\ hsWire = << >>
  /\ hsBefore = NewContact("peer", 1)
  /\ hsContact = NewContact("peer", 1)
  /\ hsErr = NoErr
  /\ ioTodo = << >>
  /\ ioMem = 1
  /\ ioRevealed = [kxout |-> 0, showOutbox |-> 0]
  /\ ioClosed = {}
  /\ ioMade = LoadUIMade
  /\ wrPc = "recv"
  /\ wrBuf = 0
  /\ wrFile = 0
  /\ netPc = "run"
  /\ sz = SzIdle
  /\ ld = LdIdle
  /\ nv = NvIdle
  /\ xs = XsIdle

Next ==
  \/ ClickNewContact
  \/ ClickCreate
  \/ ClickContact
  \/ ClickProcess
  \/ ClickCompose
  \/ ClickSend
  \/ ClickOutbox
  \/ ClickInbox
  \/ ClickAck
  \/ ClickReply
  \/ NetTransmit
  \/ RecvMessageSent
  \/ RecvNewMessage
  \/ ClickClientUI
  \/ EventsClosed

Spec == Init /\ [][Next]_vars

(***************************************************************************)
(* Properties of the session (checked under Spec).                         *)
(***************************************************************************)

\* The contact stored under id before the step is the same object as the
\* one stored under id after it.
SameContact(id) ==
  /\ id \in DOMAIN contacts
  /\ id \in DOMAIN contacts'
  /\ contacts[id].obj = contacts'[id].obj

\* The contact with the four values of its DH ratchet taken from other.
WithRatchetOf(contact, other) ==
  [contact EXCEPT !.lastDHPrivate = other.lastDHPrivate,
                  !.currentDHPrivate = other.currentDHPrivate,
                  !.theirLastDHPublic = other.theirLastDHPublic,
                  !.theirCurrentDHPublic = other.theirCurrentDHPublic]

\* The step is a click on "process" for the contact under id whose record
\* processKeyExchange accepted, and the contact is left as that call
\* left it but for isPending and for the ratchet, which the unsealing of
\* its pending messages may have advanced.
AppliedHandshake(id) ==
  /\ view.ui = "newContact2"
  /\ view.arg = id
  /\ \E kxin \in KxInputs :
       /\ kxin.label = keyExchangePEM
       /\ processKeyExchange(contacts[id], kxin.body, FALSE).err = NoErr
       /\ contacts'[id] =
            WithRatchetOf(
              [processKeyExchange(contacts[id], kxin.body, FALSE).contact
                 EXCEPT !.isPending = FALSE],
              contacts'[id])

\* C5: in every step, a contact that is not pending stays so, and a contact
\* that is pending ceases to be only in a step that is a successful
\* processKeyExchange on that very contact.
C5_PendingClearedOnlyBySuccess ==
  [][\A id \in DOMAIN contacts :
       SameContact(id) =>
         /\ ~contacts[id].isPending => ~contacts'[id].isPending
         /\ contacts[id].isPending /\ ~contacts'[id].isPending
              => AppliedHandshake(id)]_vars

\* A contact is no longer pending and events have followed: a message to
\* it was composed, transmitted and reported sent.
C5_Witness ==
  \E id \in DOMAIN contacts :
    /\ ~contacts[id].isPending
    /\ \E i \in 1 .. Len(outbox) :
         outbox[i].to = id /\ outbox[i].sent # ZeroTime

\* C6 (as claimed): a pending contact has no peer signing key, identity
\* value, server or DH public value recorded.
C6_PendingHasNoPeerValues ==
  \A id \in DOMAIN contacts :
    contacts[id].isPending =>
      /\ contacts[id].theirPub = ZeroKey
      /\ contacts[id].theirIdentityPublic = ZeroKey
      /\ contacts[id].theirServer = << >>
      /\ contacts[id].theirLastDHPublic = ZeroKey
      /\ contacts[id].theirCurrentDHPublic = ZeroKey

\* C7: in every step, a contact that is not pending keeps its peer signing
\* key, identity value and server; and the view that waits for a click on
\* "process" is only ever open on a contact that is pending.
C7_ActivePeerFieldsFrozen ==
  /\ [][\A id \in DOMAIN contacts :
          SameContact(id) /\ ~contacts[id].isPending =>
            /\ contacts'[id].theirPub = contacts[id].theirPub
            /\ contacts'[id].theirIdentityPublic
                 = contacts[id].theirIdentityPublic
            /\ contacts'[id].theirServer = contacts[id].theirServer]_vars
  /\ [](view.ui = "newContact2" =>
          view.arg \in DOMAIN contacts /\ contacts[view.arg].isPending)

\* A contact is no longer pending, its peer values are recorded, and the
\* user has gone on to another view after it was displayed.
C7_Witness ==
  \E id \in DOMAIN contacts :
    /\ ~contacts[id].isPending
    /\ contacts[id].theirPub = Identity(Peer).pub
    /\ contacts[id].theirServer = Identity(Peer).server
    /\ view.ui = "inbox"

\* C10: in every step, no message leaves the outbox, a sent time that is
\* not zero stays not zero, an acked time that is not zero stays not zero,
\* and the indicator of a message does not go back (red, yellow, green).
C10_StatusMonotonic ==
  [][/\ Len(outbox') >= Len(outbox)
     /\ \A i \in 1 .. Len(outbox) :
          /\ outbox[i].sent # ZeroTime => outbox'[i].sent # ZeroTime
          /\ outbox[i].acked # ZeroTime => outbox'[i].acked # ZeroTime
          /\ indicator(outbox'[i]) >= indicator(outbox[i])]_vars

\* A message with a body has gone through both changes of status: it has
\* its sent time and its acked time.
C10_Witness ==
  \E i \in 1 .. Len(outbox) :
    /\ outbox[i].acked # ZeroTime
    /\ outbox[i].sent # ZeroTime
    /\ Len(outbox[i].message.body) > 0

\* The outbox message that the id waiting on messageSentChan was reported
\* for: the one the network goroutine took from the queue last (messages
\* enter the queue in the order of the outbox).
LastTransmitted ==
  CHOOSE i \in 1 .. Len(outbox) :
    Transmitted(i) /\ \A j \in 1 .. Len(outbox) : Transmitted(j) => j <= i

\* C11 (as claimed): in a step that takes from messageSentChan the id
\* reported for a message with neither a sent nor an acked time, that
\* message gets a sent time, its acked time stays zero, and every other
\* message of the outbox stays as it is.
C11_SentConfirmation ==
  [][/\ messageSentChan # << >>
     /\ messageSentChan' = Tail(messageSentChan)
     /\ outbox[LastTransmitted].sent = ZeroTime
     /\ outbox[LastTransmitted].acked = ZeroTime
     => /\ outbox'[LastTransmitted].sent # ZeroTime
        /\ outbox'[LastTransmitted].acked = ZeroTime
        /\ \A j \in 1 .. Len(outbox) :
             j # LastTransmitted => outbox'[j] = outbox[j]]_vars

\* C12 (as claimed): in a step in which a pending contact ceases to be
\* pending, the loop that unseals its messages leaves no message of the
\* inbox that came from it in sealed form, whether or not the message
\* could be unsealed.
C12_NoneLeftSealed ==
  [][\A id \in DOMAIN contacts :
       SameContact(id) /\ contacts[id].isPending /\ ~contacts'[id].isPending
         => \A i \in 1 .. Len(inbox') :
              inbox'[i].from = id => inbox'[i].message # None]_vars

\* C13: between any two events the loop that unseals the pending messages
\* has run once for every contact that is no longer pending and never for
\* a contact that is pending (so never after a rejected record); and the
\* only step in which it runs for a contact is the click on "process" whose
\* record processKeyExchange accepted for that contact.
C13_UnsealOncePerHandshake ==
  /\ [](\A id \in DOMAIN contacts :
          unsealRuns[contacts[id].obj]
            = IF contacts[id].isPending THEN 0 ELSE 1)
  /\ [][\A n \in 1 .. Len(unsealRuns) :
          unsealRuns'[n] # unsealRuns[n] =>
            \E id \in DOMAIN contacts :
              contacts[id].obj = n /\ AppliedHandshake(id)]_vars

\* The loop has run once for a contact that is no longer pending, and the
\* inbox holds a message from that contact in decoded form.
C13_Witness ==
  \E id \in DOMAIN contacts :
    /\ ~contacts[id].isPending
    /\ unsealRuns[contacts[id].obj] = 1
    /\ \E i \in 1 .. Len(inbox) :
         inbox[i].from = id /\ inbox[i].message # None

\* C14: every message of the inbox has either its ciphertext or its decoded
\* form, never both and never neither; and in every step a decoded message
\* stays decoded, and a sealed message becomes decoded only in the step
\* that completes the handshake of the contact it came from.
C14_OneRepresentation ==
  /\ [](\A i \in 1 .. Len(inbox) :
          (inbox[i].sealed = None) # (inbox[i].message = None))
  /\ [][\A i \in 1 .. Len(inbox) :
          /\ i <= Len(inbox')
          /\ inbox'[i].id = inbox[i].id
          /\ inbox[i].message # None => inbox'[i].message # None
          /\ inbox[i].message = None /\ inbox'[i].message # None
               => AppliedHandshake(inbox[i].from)]_vars

\* A message with a body is in the inbox in decoded form, without its
\* ciphertext, and the contact it came from has completed its handshake.
C14_Witness ==
  \E i \in 1 .. Len(inbox) :
    /\ inbox[i].sealed = None
    /\ inbox[i].message # None
    /\ Len(inbox[i].message[1].body) > 0
    /\ ~contacts[inbox[i].from].isPending

(***************************************************************************)
(* Saving and shutting down.  The session goroutine is followed statement  *)
(* by statement through the calls that hand the state to the state writer  *)
(* (c.save, a send on the unbuffered c.writerChan), that read or write a   *)
(* file, that show the result to the user, and that close channels.  The   *)
(* state itself is reduced to its version: ioMem counts the changes that   *)
(* the handlers have made to it.  c.save, stateWriter and c.transact are   *)
(* not in src/; they are modelled from the channels that loadUI makes for  *)
(* them and from the spec.                                                  *)
(***************************************************************************)

\* The most changes of the state that are followed.
MaxMutations == 3

\* The channels that get closed.
Channels == {"events", "writerChan", "writerDone", "fetchNowChan", "actions"}

\* The loops that wait for a click before loadUI has made the channels
\* and started the workers (client.go:2045-2049, 2136-2140, 2226-2229).
Startup == {"createAccountUI", "keyPromptUI"}

\* The statements of ShutdownAndSuspend if Shutdown closed fetchNowChan
\* before it closed writerChan.
ShutdownAndSuspend_FetchFirst ==
  << "save", "closeFetch", "closeWriter", "waitDone", "closeActions",
     "park" >>

\* The statements of ShutdownAndSuspend if it did not call c.save.
ShutdownAndSuspend_NoSave ==
  << "closeWriter", "waitDone", "closeFetch", "closeActions", "park" >>

\* The statements of ShutdownAndSuspend if Shutdown waited for writerDone
\* before it closed writerChan.
ShutdownAndSuspend_WaitFirst ==
  << "save", "waitDone", "closeWriter", "closeFetch", "closeActions",
     "park" >>

\* The statements of ShutdownAndSuspend (client.go:2277-2284), those of
\* Shutdown (2286-2294) in the place of its call: c.save, close(writerChan),
\* <-writerDone, close(fetchNowChan), close(ui.Actions()), select {}.
ShutdownAndSuspend ==
  << "save", "closeWriter", "waitDone", "closeFetch", "closeActions",
     "park" >>

\* What newContactUI does after it has made a contact and its key
\* exchange record if it set kxout before the first c.save.
newContactUI_RevealFirst == << "kxout", "save", "save" >>

\* What newContactUI does after it has made a contact and its key
\* exchange record (client.go:1833-1843): c.save, SetTextView kxout, c.save.
newContactUI == << "save", "kxout", "save" >>

\* What composeUI does after c.send (client.go:1157-1160): c.save, then
\* showOutbox.
composeUI == << "save", "showOutbox" >>

\* The session goroutine waits in the select of nextEvent.
Waiting == ioTodo = << >>

\* The session goroutine is in ShutdownAndSuspend.
InShutdown == ioTodo # << >> /\ ioTodo[Len(ioTodo)] = "park"

\* The session goroutine is at that statement.
At(stmt) == ioTodo # << >> /\ Head(ioTodo) = stmt

\* The session goroutine waits for a click in one of the loops of Startup.
StartingUp == ioTodo # << >> /\ Head(ioTodo) \in Startup

sessionVars == << ownerVars, sharedVars, enqVars, hsVars, pureVars >>

\* The statements of loadUI once the account is created or loaded
\* (client.go:299-308): the three channels are made one after the other,
\* stateWriter and c.transact are started, and a new account is saved.
loadUI(newAccount) ==
  << "makeWriterChan", "makeWriterDone", "makeFetchNowChan",
     "goStateWriter", "goTransact" >>
    \o (IF newAccount THEN << "save" >> ELSE << >>)

\* createAccountUI or keyPromptUI returns to loadUI (client.go:269-277,
\* 297).
IoLoadUI ==
  /\ StartingUp
  /\ "events" \notin ioClosed
  /\ ioTodo' = loadUI(Head(ioTodo) = "createAccountUI")
  /\ UNCHANGED << ioMem, ioRevealed, ioClosed, ioMade, wrPc, wrBuf, wrFile,
                  netPc, sessionVars >>

\* The channel that the statement makes.
MadeBy(stmt) ==
  IF stmt = "makeWriterChan" THEN "writerChan"
  ELSE IF stmt = "makeWriterDone" THEN "writerDone"
  ELSE "fetchNowChan"

\* loadUI makes a channel (client.go:299-301).
IoMake ==
  /\ At("makeWriterChan") \/ At("makeWriterDone") \/ At("makeFetchNowChan")
  /\ ioMade' = ioMade \cup {MadeBy(Head(ioTodo))}
  /\ ioTodo' = Tail(ioTodo)
  /\ UNCHANGED << ioMem, ioRevealed, ioClosed, wrPc, wrBuf, wrFile, netPc >>
  /\ UNCHANGED sessionVars

\* loadUI starts stateWriter on the two channels of the state writer
\* (client.go:304).
IoGoStateWriter ==
  /\ At("goStateWriter")
  /\ wrPc' = "recv"
  /\ ioTodo' = Tail(ioTodo)
  /\ UNCHANGED << ioMem, ioRevealed, ioClosed, ioMade, wrBuf, wrFile, netPc >>
  /\ UNCHANGED sessionVars

\* loadUI starts c.transact (client.go:305).
IoGoTransact ==
  /\ At("goTransact")
  /\ netPc' = "run"
  /\ ioTodo' = Tail(ioTodo)
  /\ UNCHANGED << ioMem, ioRevealed, ioClosed, ioMade, wrPc, wrBuf, wrFile >>
  /\ UNCHANGED sessionVars

\* The handling of an event up to its first statement that involves
\* another party: the state is changed or not, and todo is what remains.
Handle(mutates, todo) ==
  /\ Waiting
  /\ IF mutates
       THEN ioMem <= MaxMutations /\ ioMem' = ioMem + 1
       ELSE UNCHANGED ioMem
  /\ ioTodo' = todo
  /\ UNCHANGED << ioRevealed, ioClosed, ioMade, wrPc, wrBuf, wrFile, netPc >>
  /\ UNCHANGED sessionVars

\* A click on "create" with a new name (client.go:1785-1843).
IoClickCreate == "events" \notin ioClosed /\ Handle(TRUE, newContactUI)

\* A click on "process" with a record that is accepted
\* (client.go:1868-1895): the changes, then c.save.
IoClickProcess == "events" \notin ioClosed /\ Handle(TRUE, << "save" >>)

\* A click on "send" (client.go:1100-1160).
IoClickSend == "events" \notin ioClosed /\ Handle(TRUE, composeUI)

\* A click on "ack" (client.go:1427-1434): msg.acked is set and the
\* acknowledgement is queued; the handler has no c.save.
IoClickAck == "events" \notin ioClosed /\ Handle(TRUE, << >>)

\* The file chosen for an attachment: composeUI reads it
\* (client.go:1040-1042), showInbox writes it (1410-1412).
IoOpenResult == "events" \notin ioClosed /\ Handle(FALSE, << "fileIO" >>)

\* A message or a sent report from the network goroutine
\* (client.go:1905-1910): the changes, then c.save.
IoNetEvent == netPc = "run" /\ Handle(TRUE, << "save" >>)

\* The user interface closes the channel of its events.
IoCloseEvents ==
  /\ "events" \notin ioClosed
  /\ ioClosed' = ioClosed \cup {"events"}
  /\ UNCHANGED << ioTodo, ioMem, ioRevealed, ioMade, wrPc, wrBuf, wrFile, netPc >>
  /\ UNCHANGED sessionVars

\* The session goroutine finds the channel of events closed where it
\* waits for an event (client.go:1900-1904, and the loops of Startup) and
\* calls ShutdownAndSuspend.
IoShutdownRequest ==
  /\ Waiting \/ StartingUp
  /\ "events" \in ioClosed
  /\ ioTodo' = ShutdownAndSuspend
  /\ UNCHANGED << ioMem, ioRevealed, ioClosed, ioMade, wrPc, wrBuf, wrFile, netPc >>
  /\ UNCHANGED sessionVars

\* c.save: the state is serialised and sent on writerChan, which has no
\* buffer, so the send waits until stateWriter receives.  In
\* ShutdownAndSuspend the call is skipped while writerChan is nil.
IoSave ==
  /\ At("save")
  /\ IF "writerChan" \notin ioMade
       THEN InShutdown /\ UNCHANGED << wrPc, wrBuf >>
     ELSE /\ wrPc = "recv"
          /\ "writerChan" \notin ioClosed
          /\ wrBuf' = ioMem
          /\ wrPc' = "write"
  /\ ioTodo' = Tail(ioTodo)
  /\ UNCHANGED << ioMem, ioRevealed, ioClosed, ioMade, wrFile, netPc, sessionVars >>

\* ioutil.ReadFile or ioutil.WriteFile returns.
IoFile ==
  /\ At("fileIO")
  /\ ioTodo' = Tail(ioTodo)
  /\ UNCHANGED << ioMem, ioRevealed, ioClosed, ioMade, wrPc, wrBuf, wrFile, netPc >>
  /\ UNCHANGED sessionVars

\* The key exchange record is put into kxout (client.go:1835), or the
\* outbox view of the message is shown (client.go:1160).
IoReveal ==
  /\ At("kxout") \/ At("showOutbox")
  /\ ioRevealed' = [ioRevealed EXCEPT ![Head(ioTodo)] = ioMem]
  /\ ioTodo' = Tail(ioTodo)
  /\ UNCHANGED << ioMem, ioClosed, ioMade, wrPc, wrBuf, wrFile, netPc, sessionVars >>

\* Shutdown: close(c.writerChan) unless it is nil (client.go:2287-2288).
\* The close of a channel that is closed panics, and the goroutine goes no
\* further.
IoCloseWriter ==
  /\ At("closeWriter")
  /\ "writerChan" \in ioMade => "writerChan" \notin ioClosed
  /\ ioClosed' = IF "writerChan" \notin ioMade THEN ioClosed
                 ELSE ioClosed \cup {"writerChan"}
  /\ ioTodo' = Tail(ioTodo)
  /\ UNCHANGED << ioMem, ioRevealed, ioMade, wrPc, wrBuf, wrFile, netPc, sessionVars >>

\* Shutdown: <-c.writerDone unless writerChan is nil (client.go:2289); the
\* receive from a nil writerDone never returns.
IoWaitDone ==
  /\ At("waitDone")
  /\ \/ "writerChan" \notin ioMade
     \/ "writerDone" \in ioMade /\ "writerDone" \in ioClosed
  /\ ioTodo' = Tail(ioTodo)
  /\ UNCHANGED << ioMem, ioRevealed, ioClosed, ioMade, wrPc, wrBuf, wrFile, netPc >>
  /\ UNCHANGED sessionVars

\* Shutdown if it took c.fetchNowChan for made in every case.
fetchNowChanIsNil_Never == FALSE

\* c.fetchNowChan is nil (client.go:2291) until loadUI makes it (301).
fetchNowChanIsNil == "fetchNowChan" \notin ioMade

\* Shutdown: close(c.fetchNowChan) unless it is nil (client.go:2291-2293).
\* The close of a channel that is closed panics, and the goroutine goes no
\* further.
IoCloseFetch ==
  /\ At("closeFetch")
  /\ ~fetchNowChanIsNil => "fetchNowChan" \notin ioClosed
  /\ ioClosed' = IF fetchNowChanIsNil THEN ioClosed
                 ELSE ioClosed \cup {"fetchNowChan"}
  /\ ioTodo' = Tail(ioTodo)
  /\ UNCHANGED << ioMem, ioRevealed, ioMade, wrPc, wrBuf, wrFile, netPc, sessionVars >>

\* ShutdownAndSuspend: close(c.ui.Actions()) (client.go:2282); what is left
\* is select {}, where the goroutine stays.
IoCloseActions ==
  /\ At("closeActions")
  /\ ioClosed' = ioClosed \cup {"actions"}
  /\ ioTodo' = Tail(ioTodo)
  /\ UNCHANGED << ioMem, ioRevealed, ioMade, wrPc, wrBuf, wrFile, netPc, sessionVars >>

\* stateWriter writes the state it received to the state file.
WrWrite ==
  /\ wrPc = "write"
  /\ wrFile' = wrBuf
  /\ wrPc' = "recv"
  /\ UNCHANGED << ioTodo, ioMem, ioRevealed, ioClosed, ioMade, wrBuf, netPc >>
  /\ UNCHANGED sessionVars

\* stateWriter finds writerChan closed, closes writerDone and returns.
WrDone ==
  /\ wrPc = "recv"
  /\ "writerChan" \in ioClosed
  /\ ioClosed' = ioClosed \cup {"writerDone"}
  /\ wrPc' = "done"
  /\ UNCHANGED << ioTodo, ioMem, ioRevealed, ioMade, wrBuf, wrFile, netPc >>
  /\ UNCHANGED sessionVars

\* c.transact finds fetchNowChan closed and returns.
NetStop ==
  /\ netPc = "run"
  /\ "fetchNowChan" \in ioClosed
  /\ netPc' = "stopped"
  /\ UNCHANGED << ioTodo, ioMem, ioRevealed, ioClosed, ioMade, wrPc, wrBuf, wrFile >>
  /\ UNCHANGED sessionVars

\* NewClient before loadUI has made the channels: a new account waits in
\* createAccountUI with nothing in the state file; an account that has a
\* state file waits in keyPromptUI.
IoInit ==
  /\ contacts = << >>
  /\ allocated = 0
  /\ inbox = << >>
  /\ outbox = << >>
  /\ view = MainView
  /\ disk = Snapshot(<< >>, << >>, << >>)
  /\ unsealRuns = << >>
  /\ queue = << >>
  /\ queueMutex = 0
  /\ messageSentChan = << >>
  /\ enqPc = [p \in Callers |-> "call"]
  /\ enqTmp = [p \in Callers |-> << >>]
  /\ enqSent = [p \in Callers |-> 0]
  /\ hsStage = "idle"
  /\ hsSender = 1
  /\ hsChoice = Honest
  /\ hsRand = 1
  /\ hsWire = << >>
  /\ hsBefore = NewContact("peer", 1)
  /\ hsContact = NewContact("peer", 1)
  /\ hsErr = NoErr
  /\ ioTodo \in {<< s >> : s \in Startup}
  /\ ioMem = 1
  /\ ioRevealed = [kxout |-> 0, showOutbox |-> 0]
  /\ ioClosed = {}
  /\ ioMade = {}
  /\ wrPc = "absent"
  /\ wrBuf = 0
  /\ wrFile = IF ioTodo = << "keyPromptUI" >> THEN 1 ELSE 0
  /\ netPc = "absent"
  /\ sz = SzIdle
  /\ ld = LdIdle
  /\ nv = NvIdle
  /\ xs = XsIdle

IoNext ==
  \/ IoLoadUI
  \/ IoMake
  \/ IoGoStateWriter
  \/ IoGoTransact
  \/ IoClickCreate
  \/ IoClickProcess
  \/ IoClickSend
  \/ IoClickAck
  \/ IoOpenResult
  \/ IoNetEvent
  \/ IoCloseEvents
  \/ IoShutdownRequest
  \/ IoSave
  \/ IoFile
  \/ IoReveal
  \/ IoCloseWriter
  \/ IoWaitDone
  \/ IoCloseFetch
  \/ IoCloseActions
  \/ WrWrite
  \/ WrDone
  \/ NetStop

SpecIO == IoInit /\ [][IoNext]_vars

(***************************************************************************)
(* Properties of saving and shutting down (checked under SpecIO, but for   *)
(* C18, which is checked under Spec).                                      *)
(***************************************************************************)

\* The session goroutine has reached the select {} of ShutdownAndSuspend.
Parked == ioTodo = << "park" >>

\* C15: fetchNowChan is closed only after writerDone was, writerDone only
\* after writerChan was, and writerChan only in ShutdownAndSuspend and
\* after the state as it then is was handed to the state writer; once in
\* ShutdownAndSuspend the session goroutine stays in it and handles no
\* event; and where it ends, the channels of both workers are closed.
C15_ShutdownOrdered ==
  /\ []("fetchNowChan" \in ioClosed => "writerDone" \in ioClosed)
  /\ []("writerDone" \in ioClosed => "writerChan" \in ioClosed)
  /\ []("writerChan" \in ioClosed => InShutdown /\ wrBuf = ioMem)
  /\ [](Parked /\ wrPc # "absent" =>
          {"writerChan", "writerDone", "fetchNowChan"} \subseteq ioClosed)
  /\ [][InShutdown => InShutdown' /\ Len(ioTodo') <= Len(ioTodo)]_vars

\* The session goroutine has gone through ShutdownAndSuspend after its
\* state had changed: both workers had been started, all channels are
\* closed and both workers have returned.
C15_Witness ==
  /\ Parked
  /\ ioMem > 1
  /\ ioClosed = Channels
  /\ wrPc = "done"
  /\ netPc = "stopped"

\* C16: when the session goroutine has gone through ShutdownAndSuspend
\* with the state writer started, the last state the writer received and
\* the state in the file are the state in memory, which has not changed
\* since ShutdownAndSuspend was called.
C16_ShutdownPersistsState ==
  /\ [](Parked /\ wrPc # "absent" => wrBuf = ioMem /\ wrFile = ioMem)
  /\ [][InShutdown \/ InShutdown' => ioMem' = ioMem]_vars

\* The session goroutine has gone through ShutdownAndSuspend after every
\* change of state that is followed, and the state file holds the last.
C16_Witness ==
  /\ Parked
  /\ ioMem = MaxMutations + 1
  /\ wrPc = "done"
  /\ wrFile = ioMem

\* C17: the state that kxout shows, and the state that the outbox view
\* shows, was handed to the state writer before it was shown.
C17_SaveBeforeReveal ==
  /\ ioRevealed.kxout <= wrBuf
  /\ ioRevealed.showOutbox <= wrBuf

\* A contact was created and its key exchange record shown in kxout, and
\* later a message was composed and shown in the outbox view.
C17_Witness ==
  /\ ioRevealed.kxout > 1
  /\ ioRevealed.showOutbox > ioRevealed.kxout

\* C18 (as claimed): whenever the session goroutine waits for its next
\* event, the state it last handed to the state writer is the state in
\* memory: every handler that changed a contact, the inbox or the outbox
\* has called c.save.
C18_SavedBeforeNextEvent ==
  Running => disk = Snapshot(contacts, inbox, outbox)

\* C19 (as claimed): while it handles an event the session goroutine is
\* never at a statement that waits for another party: it is not at a c.save
\* while stateWriter is not receiving, and not in a read or write of a file.
C19_BlocksOnlyForEvents ==
  ~Waiting /\ ~StartingUp /\ ~InShutdown =>
    /\ At("save") => wrPc = "recv"
    /\ ~At("fileIO")

\* C20: randId returns no zero for any sequence of draws, and no contact,
\* no message of the outbox (composed or acknowledgement) and no message
\* of the inbox has the id zero.
C20_IdsNeverZero ==
  /\ \A d \in Draws : randId(d) # 0
  /\ \A id \in DOMAIN contacts : id # 0 /\ contacts[id].id # 0
  /\ \A i \in 1 .. Len(outbox) :
       outbox[i].id # 0 /\ outbox[i].message.id # 0
  /\ \A i \in 1 .. Len(inbox) : inbox[i].id # 0

\* A contact and a composed message have the id 2, which randId returns
\* only after it has discarded a first draw of zero, and an acknowledgement
\* is in the outbox as well.
C20_Witness ==
  /\ \E id \in DOMAIN contacts : contacts[id].id = 2
  /\ \E i, j \in 1 .. Len(outbox) :
       /\ outbox[i].id = 2
       /\ Len(outbox[i].message.body) > 0
       /\ Len(outbox[j].message.body) = 0

\* C21 (as claimed): no two messages of the outbox have the same id, and a
\* step that adds a contact leaves every contact that was there before in
\* its place under its id.
C21_IdsNeverReused ==
  /\ [](\A i, j \in 1 .. Len(outbox) :
          outbox[i].id = outbox[j].id => i = j)
  /\ [][\A id \in DOMAIN contacts : SameContact(id)]_vars

\* C22: every contact is stored under its own id, every message of the
\* inbox comes from the id of a contact that is in c.contacts, and every
\* message of the outbox goes to the id of a contact that is in c.contacts.
C22_ReferentialIntegrity ==
  /\ \A id \in DOMAIN contacts : contacts[id].id = id
  /\ \A i \in 1 .. Len(inbox) : inbox[i].from \in DOMAIN contacts
  /\ \A i \in 1 .. Len(outbox) : outbox[i].to \in DOMAIN contacts

\* The inbox holds a message and the outbox holds a user message and an
\* acknowledgement, and the outbox view is open on a message, for which
\* showOutbox looks up the contact.
C22_Witness ==
  /\ Len(inbox) > 0
  /\ view.ui = "outbox"
  /\ \E i, j \in 1 .. Len(outbox) :
       /\ Len(outbox[i].message.body) > 0
       /\ Len(outbox[j].message.body) = 0
       /\ outbox[j].to = inbox[1].from

(***************************************************************************)
(* The size of a composed message.  composeUI shows, while the user types, *)
(* what usageString makes of the text, and leaves "send" usable while      *)
(* usageString reports no overflow; on "send" it builds the message and    *)
(* gives it to c.send.  The protocol buffer of pond.Message, the constant  *)
(* pond.MaxSerializedMessage and c.send are not in src/: a message is      *)
(* measured as the protocol buffer encoding measures it (one byte of tag   *)
(* per field, numbers as varints, byte strings with their length before    *)
(* them), the bound is scaled down, and c.send refuses what is longer than *)
(* the bound.  A number is known by the count of its significant bits,     *)
(* which is what the length of its varint depends on.                      *)
(***************************************************************************)

\* pond.MaxSerializedMessage, scaled down.
MaxSerializedMessage == 64

\* The longest text typed.
MaxTyped == 20

\* The significant bits of time.Now().Unix() (client.go:1140).
NowBits == 31

\* The significant bits of 1 << 62 (client.go:875).
StandInTimeBits == 63

\* len(nextDHPub), len(dhPub) (client.go:1123, 871).
DhLen == 32

\* The significant bits of the ids that are followed: from a one-bit id to
\* one that takes all 64 bits.
IdBits == {1, 7, 8, 63, 64}

\* The significant bits of a length.
RECURSIVE BitLen(_)
BitLen(n) == IF n = 0 THEN 0 ELSE 1 + BitLen(n \div 2)

\* The bytes of the varint of a number of that many significant bits.
VarintLen(bits) == IF bits = 0 THEN 1 ELSE (bits + 6) \div 7

\* The bytes of a numeric field and of a field of len bytes.
VarintField(bits) == 1 + VarintLen(bits)

BytesField(len) == 1 + VarintLen(BitLen(len)) + len

\* len(proto.Marshal(msg)) for a pond.Message without attachments: Id,
\* Time, Body, BodyEncoding (RAW, zero), InReplyTo if set, MyNextDh.
MarshalLen(msg) ==
  VarintField(msg.idBits) + VarintField(msg.timeBits)
    + BytesField(msg.bodyLen) + VarintField(0)
    + (IF msg.inReplyTo = None THEN 0 ELSE VarintField(msg.inReplyTo[1]))
    + BytesField(DhLen)

\* usageString (client.go:866-890) for a text of bodyLen bytes: the length
\* of a message with id 0, time 1 << 62, the text as typed and, for a
\* reply, the reference 1; and whether that is over the bound.
usageString(bodyLen, isReply) ==
  LET msg == [idBits |-> 0, timeBits |-> StandInTimeBits,
              bodyLen |-> bodyLen,
              inReplyTo |-> IF isReply THEN Some(1) ELSE None]
  IN [len |-> MarshalLen(msg), over |-> MarshalLen(msg) > MaxSerializedMessage]

\* The message composeUI gives to c.send (client.go:1123-1146): an empty
\* text becomes one space, the id is drawn, the time is now, a reply
\* refers to the id of the message replied to.
Composed(s) ==
  [idBits |-> s.idBits, timeBits |-> NowBits,
   bodyLen |-> IF s.bodyLen = 0 THEN 1 ELSE s.bodyLen,
   inReplyTo |-> IF s.isReply THEN Some(s.replyBits) ELSE None]

\* The size check of c.send.
sendErr(msg) ==
  IF MarshalLen(msg) > MaxSerializedMessage THEN "message too large"
  ELSE NoErr

nonSzVars ==
  << ownerVars, sharedVars, enqVars, hsVars, ioVars, ld, nv, xs >>

\* An Update event: updateUsage (client.go:904-915) measures the text.
SzUpdateUsage ==
  /\ sz.stage = "typed"
  /\ sz' = [sz EXCEPT !.stage = "measured",
                      !.over = usageString(sz.bodyLen, sz.isReply).over]
  /\ UNCHANGED nonSzVars

\* A click on "send": the message is built and given to c.send
\* (client.go:1106-1152).  The handler does not look at what updateUsage
\* measured; making the button insensitive is left to the UI.
SzSend ==
  /\ sz.stage = "measured"
  /\ sz' = [sz EXCEPT !.stage = "sent", !.err = sendErr(Composed(sz))]
  /\ UNCHANGED nonSzVars

\* composeUI with a text typed, for a new message or for a reply.
SzInit ==
  /\ contacts = << >>
  /\ allocated = 0
  /\ inbox = << >>
  /\ outbox = << >>
  /\ view = MainView
  /\ disk = Snapshot(<< >>, << >>, << >>)
  /\ unsealRuns = << >>
  /\ queue = << >>
  /\ queueMutex = 0
  /\ messageSentChan = << >>
  /\ enqPc = [p \in Callers |-> "call"]
  /\ enqTmp = [p \in Callers |-> << >>]
  /\ enqSent = [p \in Callers |-> 0]
  /\ hsStage = "idle"
  /\ hsSender = 1
  /\ hsChoice = Honest
  /\ hsRand = 1
  /\ hsWire = << >>
  /\ hsBefore = NewContact("peer", 1)
  /\ hsContact = NewContact("peer", 1)
  /\ hsErr = NoErr
  /\ ioTodo = << >>
  /\ ioMem = 1
  /\ ioRevealed = [kxout |-> 0, showOutbox |-> 0]
  /\ ioClosed = {}
  /\ ioMade = LoadUIMade
  /\ wrPc = "recv"
  /\ wrBuf = 0
  /\ wrFile = 0
  /\ netPc = "run"
  /\ \E n \in 0 .. MaxTyped, r \in BOOLEAN, i \in IdBits, j \in IdBits :
       sz = [stage |-> "typed", bodyLen |-> n, isReply |-> r, idBits |-> i,
             replyBits |-> IF r THEN j ELSE 0, over |-> FALSE,
             err |-> NoErr]
  /\ ld = LdIdle
  /\ nv = NvIdle
  /\ xs = XsIdle

SzNext == SzUpdateUsage \/ SzSend

SpecSize == SzInit /\ [][SzNext]_vars

\* C23 (as claimed): c.send refuses a message exactly when it is longer
\* than the bound, and usageString reports overflow for a text exactly
\* when the message composeUI builds from it is longer than the bound.
C23_UsageAgreesWithSend ==
  /\ sz.stage = "sent" =>
       (sz.err # NoErr <=> MarshalLen(Composed(sz)) > MaxSerializedMessage)
  /\ sz.stage \in {"measured", "sent"} =>
       (sz.over <=> MarshalLen(Composed(sz)) > MaxSerializedMessage)

\* C24 (as claimed): while the session runs, for every message of the inbox
\* that is marked acked the outbox holds a message to the contact it came
\* from that refers to its id.
C24_AckedHasAckRecord ==
  Running =>
    \A i \in 1 .. Len(inbox) :
      inbox[i].acked /\ inbox[i].message # None =>
        \E j \in 1 .. Len(outbox) :
          /\ outbox[j].to = inbox[i].from
          /\ outbox[j].message.inReplyTo = Some(inbox[i].message[1].id)

\* C25: for every contact, the next DH public value sendAck embeds is the
\* one composeUI embeds; and in every step that adds a message to the
\* outbox, acknowledgement or not, the value embedded is the public value
\* of the current DH private scalar of the contact it goes to.
C25_AckUsesComposeDh ==
  /\ [](\A id \in DOMAIN contacts :
          sendAckNextDh(contacts[id]) = composeNextDh(contacts[id]))
  /\ [][Len(outbox') = Len(outbox) + 1 =>
          outbox'[Len(outbox')].message.myNextDh
            = ScalarBaseMult(
                contacts[outbox'[Len(outbox')].to].currentDHPrivate)]_vars

\* The outbox holds an acknowledgement and a user message to the same
\* contact, whose handshake is complete, with the same next DH public
\* value.
C25_Witness ==
  \E i, j \in 1 .. Len(outbox) :
    /\ Len(outbox[i].message.body) = 0
    /\ Len(outbox[j].message.body) > 0
    /\ outbox[i].to = outbox[j].to
    /\ ~contacts[outbox[i].to].isPending
    /\ outbox[i].message.myNextDh = outbox[j].message.myNextDh

(***************************************************************************)
(* Creating contacts: the clicks on "newcontact" and "create" alone, with  *)
(* room for more contacts than Spec has.                                   *)
(***************************************************************************)

\* The most contacts made, and the names offered.
MaxNamed == 3

NamesOffered == 1 .. MaxNamed

NcCreate == Create(NamesOffered, MaxNamed)

NcNext == ClickNewContact \/ NcCreate \/ ClickContact

SpecNames == Init /\ [][NcNext]_vars

\* C26: no two contacts have the same name; and a step taken where
\* newContactUI waits for "create" changes the contacts only by adding a
\* new contact whose name no contact had, so a click with a name in use
\* changes and saves nothing.
C26_DuplicateNameRejected ==
  /\ [](\A i, j \in DOMAIN contacts :
          contacts[i].name = contacts[j].name => i = j)
  /\ [][view.ui = "newContact" /\ << contacts, disk >> # << contacts', disk' >>
          => \E id \in DOMAIN contacts' :
               /\ contacts'[id].obj = allocated + 1
               /\ \A k \in DOMAIN contacts :
                    contacts[k].name # contacts'[id].name
               /\ disk' = Snapshot(contacts', inbox, outbox)]_vars

\* Two contacts with different names exist, and newContactUI waits for
\* "create" again, where the names in use are refused.
C26_Witness ==
  /\ view.ui = "newContact"
  /\ \E i, j \in DOMAIN contacts : contacts[i].name # contacts[j].name

(***************************************************************************)
(* C27: a message that send refuses.                                       *)
(***************************************************************************)

\* Inbox message i is marked acked by the step.
BecomesAcked(i) == ~inbox[i].acked /\ inbox'[i].acked

\* The step put a message in the outbox that refers to inbox message i, saved
\* the state with it and left the compose view for the outbox.
SentReplyTo(i) ==
  /\ Len(outbox') = Len(outbox) + 1
  /\ inbox[i].message # None
  /\ outbox'[Len(outbox')].message.inReplyTo = Some(inbox[i].message[1].id)
  /\ queue' = Append(queue, Len(outbox'))
  /\ disk' = Snapshot(contacts', inbox', outbox')
  /\ view'.ui = "outbox"

\* C27: when sending a composed message fails, nothing is mutated: a step
\* that leaves the compose view open, the outbox as it was and receives
\* nothing from the network goroutine leaves the inbox (so the acked flag of the message replied to),
\* the contacts and the saved state as they were; and a message is marked
\* acked from the compose view only by a step that sent the reply to it and
\* saved.
C27_FailedSendMutatesNothing ==
  [][view.ui = "compose" =>
       /\ ( /\ view' = view
            /\ outbox' = outbox
            /\ Len(inbox') = Len(inbox)
            /\ messageSentChan' = messageSentChan )
            => << inbox, contacts, disk >> = << inbox', contacts', disk' >>
       /\ \A i \in 1 .. Len(inbox) : BecomesAcked(i) => SentReplyTo(i)]_vars

\* C27 witness: the view composes a reply to an unsealed message that is
\* not acked, with a contact to send to, so that the too large body offered
\* there is refused.
C27_Witness ==
  /\ view.ui = "compose"
  /\ view.arg # 0
  /\ inbox[view.arg].message # None
  /\ ~inbox[view.arg].acked
  /\ DOMAIN contacts # {}
  /\ Len(outbox) < MaxOutbox
  /\ MutexFree(queueMutex)
  /\ \E typed \in Bodies : Len(typed) > MaxBody

(***************************************************************************)
(* Starting up: loadUI from the read of the state file to mainUI, with     *)
(* keyPromptUI, createPassphraseUI and createAccountUI in the place of     *)
(* their calls.  c.loadState, c.deriveKey and getSCryptSaltFromState are   *)
(* not in src/: a state file is reduced to the key that opens it and to    *)
(* whether what the key opens can be parsed, and Load answers as the spec  *)
(* says (the state, BadPassword or CorruptState).                          *)
(***************************************************************************)

\* The passphrases typed are 0 (the empty one) .. MaxPassphrase.
MaxPassphrase == 2

Passphrases == 0 .. MaxPassphrase

\* The most calls of c.save by handlers of mainUI that are followed.
MaxSaves == 2

\* c.diskKey as NewClient leaves it: all zeros.
ZeroDiskKey == [derived |-> FALSE, pw |-> 0]

\* c.deriveKey: the key made from a passphrase (and the salt of the file).
deriveKey(pw) == [derived |-> TRUE, pw |-> pw]

DiskKeys == {ZeroDiskKey} \cup {deriveKey(pw) : pw \in 1 .. MaxPassphrase}

badPasswordError == "bad password"

corruptError == "corrupt state"

\* What ioutil.ReadFile and getSCryptSaltFromState find: no usable file, or
\* a state sealed under one of the keys, well formed or not.
NoFile == [exists |-> FALSE, key |-> ZeroDiskKey, corrupt |-> FALSE]

StateFiles ==
  {NoFile} \cup
  {[exists |-> TRUE, key |-> k, corrupt |-> b] :
     k \in DiskKeys, b \in BOOLEAN}

\* c.loadState: the error of opening the file with that key.
loadState(file, key) ==
  IF key # file.key THEN badPasswordError
  ELSE IF file.corrupt THEN corruptError
  ELSE NoErr

\* Where loadUI goes if it starts the workers whatever loadState said.
afterLoad_StartAnyway(err) ==
  IF err = badPasswordError THEN "keyPromptUI" ELSE "startWorkers"

\* Where loadUI goes with the error it has (client.go:274-296): back into
\* keyPromptUI while it is badPasswordError, to the error view and
\* select {} on any other error, on to the workers without one.
afterLoad(err) ==
  IF err = badPasswordError THEN "keyPromptUI"
  ELSE IF err # NoErr THEN "error"
  ELSE "startWorkers"

\* One click on "next" in keyPromptUI (client.go:2055-2087): an empty
\* passphrase leaves the loop and returns nil; any other is made into
\* c.diskKey and tried, and the loop goes on only after badPasswordError.
keyPromptUI(l, pw) ==
  IF pw = 0 THEN [l EXCEPT !.err = NoErr, !.pc = "checkErr"]
  ELSE
    LET key == deriveKey(pw)
        err == loadState(l.file, key)
    IN IF err # badPasswordError
         THEN [l EXCEPT !.diskKey = key, !.err = err,
                        !.loaded = (err = NoErr), !.pc = "checkErr"]
       ELSE [l EXCEPT !.diskKey = key,
                      !.status = "Incorrect passphrase or corrupt state file"]

\* The variables that starting up leaves alone.
nonLdVars ==
  << ownerVars, sharedVars, enqVars, hsVars, ioVars, sz, nv, xs >>

\* loadUI reads the file (client.go:250-273): without a usable file the
\* new account flow begins, else the file is tried with the zero key.
LdReadFile ==
  /\ ld.pc = "readFile"
  /\ IF ~ld.file.exists
       THEN ld' = [ld EXCEPT !.pc = "createPassphraseUI",
                             !.uiState = "createPassphrase"]
     ELSE LET err == loadState(ld.file, ld.diskKey)
          IN ld' = [ld EXCEPT !.err = err, !.loaded = (err = NoErr),
                              !.pc = "checkErr"]
  /\ UNCHANGED nonLdVars

\* loadUI looks at the error (client.go:274-296).
LdCheckErr ==
  /\ ld.pc = "checkErr"
  /\ ld' = [ld EXCEPT !.pc = afterLoad(ld.err),
                      !.uiState = IF afterLoad(ld.err) = "keyPromptUI"
                                    THEN "passphrase"
                                  ELSE IF afterLoad(ld.err) = "error"
                                    THEN "error"
                                  ELSE @]
  /\ UNCHANGED nonLdVars

\* A click on "next" in keyPromptUI.
LdClickNext ==
  /\ ld.pc = "keyPromptUI"
  /\ \E pw \in Passphrases : ld' = keyPromptUI(ld, pw)
  /\ UNCHANGED nonLdVars

\* A click on "next" in createPassphraseUI (client.go:2135-2168): an empty
\* passphrase keeps the zero key.
LdCreatePassphrase ==
  /\ ld.pc = "createPassphraseUI"
  /\ \E pw \in Passphrases :
       ld' = [ld EXCEPT !.diskKey = IF pw = 0 THEN @ ELSE deriveKey(pw),
                        !.pc = "createAccountUI",
                        !.uiState = "createAccount"]
  /\ UNCHANGED nonLdVars

\* A click on "create" in createAccountUI (client.go:2225-2274): the loop
\* ends when doCreateAccount made the account.
LdCreateAccount ==
  /\ ld.pc = "createAccountUI"
  /\ \E made \in BOOLEAN :
       ld' = IF made THEN [ld EXCEPT !.newAccount = TRUE,
                                     !.pc = "startWorkers"]
             ELSE [ld EXCEPT !.status = "account not created"]
  /\ UNCHANGED nonLdVars

\* loadUI makes the channels, starts stateWriter and transact, saves a new
\* account and enters mainUI (client.go:299-310).
LdStartWorkers ==
  /\ ld.pc = "startWorkers"
  /\ ld' = [ld EXCEPT !.writerChan = TRUE, !.workers = TRUE,
                      !.saves = IF ld.newAccount THEN @ + 1 ELSE @,
                      !.pc = "mainUI", !.uiState = "main"]
  /\ UNCHANGED nonLdVars

\* A handler under mainUI calls c.save (such as client.go:1157).
LdHandlerSave ==
  /\ ld.pc = "mainUI"
  /\ ld.saves < MaxSaves
  /\ ld' = [ld EXCEPT !.saves = @ + 1]
  /\ UNCHANGED nonLdVars

\* The ui closes its events while a loop waits for one (client.go:1900-1903,
\* 2046-2049, 2137-2140, 2227-2230): ShutdownAndSuspend saves if
\* c.writerChan has been made (2277-2284).
LdCloseEvents ==
  /\ ld.pc \in {"keyPromptUI", "createPassphraseUI", "createAccountUI",
                "mainUI"}
  /\ ld' = [ld EXCEPT !.saves = IF ld.writerChan THEN @ + 1 ELSE @,
                      !.pc = "suspended"]
  /\ UNCHANGED nonLdVars

\* NewClient, and loadUI up to its read of the state file: any state file,
\* the zero key, no channels and no workers.
LdInit ==
  /\ contacts = << >>
  /\ allocated = 0
  /\ inbox = << >>
  /\ outbox = << >>
  /\ view = MainView
  /\ disk = Snapshot(<< >>, << >>, << >>)
  /\ unsealRuns = << >>
  /\ queue = << >>
  /\ queueMutex = 0
  /\ messageSentChan = << >>
  /\ enqPc = [p \in Callers |-> "call"]
  /\ enqTmp = [p \in Callers |-> << >>]
  /\ enqSent = [p \in Callers |-> 0]
  /\ hsStage = "idle"
  /\ hsSender = 1
  /\ hsChoice = Honest
  /\ hsRand = 1
  /\ hsWire = << >>
  /\ hsBefore = NewContact("peer", 1)
  /\ hsContact = NewContact("peer", 1)
  /\ hsErr = NoErr
  /\ ioTodo = << >>
  /\ ioMem = 1
  /\ ioRevealed = [kxout |-> 0, showOutbox |-> 0]
  /\ ioClosed = {}
  /\ ioMade = {}
  /\ wrPc = "recv"
  /\ wrBuf = 0
  /\ wrFile = 0
  /\ netPc = "absent"
  /\ sz = SzIdle
  /\ \E f \in StateFiles :
       ld = [pc |-> "readFile", file |-> f, diskKey |-> ZeroDiskKey,
             err |-> NoErr, loaded |-> FALSE, newAccount |-> FALSE,
             uiState |-> "loading", status |-> "", writerChan |-> FALSE,
             workers |-> FALSE, saves |-> 0]
  /\ nv = NvIdle
  /\ xs = XsIdle

LdNext ==
  \/ LdReadFile
  \/ LdCheckErr
  \/ LdClickNext
  \/ LdCreatePassphrase
  \/ LdCreateAccount
  \/ LdStartWorkers
  \/ LdHandlerSave
  \/ LdCloseEvents

SpecLoad == LdInit /\ [][LdNext]_vars

\* The session has started: the channels are made, the workers run, the
\* main view is entered or a Save was issued.
LdStarted ==
  \/ ld.writerChan
  \/ ld.workers
  \/ ld.uiState = "main"
  \/ ld.pc = "mainUI"
  \/ ld.saves > 0

\* C28: on an existing state file protected by a passphrase, the workers
\* are started, the main view is entered and a Save is issued only after
\* loadState has succeeded with the key entered, whatever passphrases were
\* typed (the empty one included).
C28_StartedOnlyAfterLoad ==
  []((ld.file.exists /\ ld.file.key # ZeroDiskKey /\ LdStarted)
       => ld.loaded /\ loadState(ld.file, ld.diskKey) = NoErr)

\* C29: once loadState has answered with an error other than
\* badPasswordError, the error stays, loadUI only goes on to show the error
\* view and to block there, the channels are never made, the workers never
\* started, the main view never entered and no Save is issued.
C29_CorruptBlocksStartup ==
  /\ [](ld.err = corruptError =>
          /\ ld.pc \in {"checkErr", "error"}
          /\ ld.pc = "error" <=> ld.uiState = "error"
          /\ ~LdStarted)
  /\ [][ld.err = corruptError => ld'.err = corruptError]_vars

\* C29 witness: loadState found the file corrupt and loadUI blocks in the
\* error view.
C29_Witness ==
  /\ ld.err = corruptError
  /\ ld.pc = "error"
  /\ ld.uiState = "error"

(***************************************************************************)
(* C30: the read flag of an inbox message.                                 *)
(***************************************************************************)

\* The step opens an inbox message: the view changes to that of a message.
OpensInbox == view'.ui = "inbox" /\ view' # view

\* C30: a step that opens an unsealed unread message sets its read flag
\* and saves the state with it; a step that opens a sealed message (or one
\* already read) leaves the inbox and the saved state as they were; a read
\* flag is set only by opening the unsealed message; and no step clears a
\* read flag.
C30_ReadOnlyWhenDecoded ==
  [][/\ OpensInbox =>
          IF inbox[view'.arg].message # None /\ ~inbox[view'.arg].read
            THEN /\ inbox' = [inbox EXCEPT ![view'.arg].read = TRUE]
                 /\ disk' = Snapshot(contacts', inbox', outbox')
          ELSE inbox' = inbox /\ disk' = disk
     /\ Len(inbox') >= Len(inbox)
     /\ \A i \in 1 .. Len(inbox) :
          /\ inbox[i].read => inbox'[i].read
          /\ (~inbox[i].read /\ inbox'[i].read) =>
               /\ view' = [ui |-> "inbox", arg |-> i]
               /\ inbox[i].message # None
               /\ disk'.inbox[i].read]_vars

\* C30 witness: an unsealed message is open, is read and is saved as read.
C30_Witness ==
  /\ view.ui = "inbox"
  /\ inbox[view.arg].message # None
  /\ inbox[view.arg].read
  /\ view.arg <= Len(disk.inbox)
  /\ disk.inbox[view.arg].read

(***************************************************************************)
(* C31..C32: acknowledging an inbox message.                               *)
(***************************************************************************)

\* C31: an "ack" or "reply" click for a message that is still sealed does
\* not crash the session goroutine and does not set the acked flag: the
\* session keeps running and only unsealed messages are acked.
C31_AckOnlyWhenDecoded ==
  /\ Running
  /\ \A i \in 1 .. Len(inbox) : inbox[i].acked => inbox[i].message # None

\* The outbox messages that sendAck made for inbox message i: those without
\* body, to its sender, that refer to it.
AcksOf(i) ==
  {j \in 1 .. Len(outbox) :
     /\ Len(outbox[j].message.body) = 0
     /\ outbox[j].to = inbox[i].from
     /\ outbox[j].message.inReplyTo = Some(inbox[i].message[1].id)}

\* C32: at most one acknowledgement is ever put in the outbox for an inbox
\* message, whatever clicks arrive.
C32_AtMostOneAck ==
  \A i \in 1 .. Len(inbox) :
    inbox[i].message # None => Cardinality(AcksOf(i)) <= 1

(***************************************************************************)
(* The dispatch of events: mainUI (client.go:511-561), the loops of the    *)
(* sub-views and nextEvent (1898-1931).  An event is reduced to its kind;  *)
(* nv.consumed is the history of the events read, nv.dispatched that of    *)
(* the events mainUI found a view for, nv.carried the event a sub-view     *)
(* returned to mainUI (its variable nextEvent), "" for nil.                *)
(***************************************************************************)

\* The most events read.
MaxEvents == 3

\* Clicks on an entry of the four lists and on the two buttons of the left
\* pane; a contact entry is that of a pending contact or of another one.
NavEvents ==
  {"inbox", "outbox", "contact", "pendingContact", "identity",
   "newcontact", "compose"}

\* Clicks that only a sub-view knows.
LocalEvents == {"reply", "send", "process", "other"}

\* What the other goroutines send: a fetched message, the id of a sent one.
Notifications == {"newMessage", "messageSent"}

\* The views whose function waits for events in a loop of its own.
LoopViews == {"inbox", "outbox", "compose", "newContact"}

\* nextEvent if it did not want clicks on "compose".
wanted_NoCompose(e) == e \in NavEvents \ {"compose"}

\* The result "wanted" of nextEvent (client.go:1915-1930) for an event it
\* read from c.ui.Events(); for a notification it returns before that with
\* no event (1905-1910).
wanted(e) ==
  \/ e \in {"contact", "pendingContact"}
  \/ e = "outbox"
  \/ e = "inbox"
  \/ e = "identity"
  \/ e \in {"newcontact", "compose"}

\* The view mainUI shows for an event (client.go:523-559): showContact
\* enters newContactUI for a pending contact; "" when mainUI has nothing
\* to do with the event.
dispatch(e) ==
  CASE e = "inbox" -> "inbox"
    [] e = "outbox" -> "outbox"
    [] e = "contact" -> "contact"
    [] e = "pendingContact" -> "newContact"
    [] e = "identity" -> "identity"
    [] e = "newcontact" -> "newContact"
    [] e = "compose" -> "compose"
    [] OTHER -> ""

\* The view after a sub-view handled an event that nextEvent did not want:
\* "reply" in showInbox enters composeUI (client.go:1435-1436), "send" in
\* composeUI may end in showOutbox (1160), "process" in newContactUI may
\* end in showContact (1895), which returns; anything else changes no view.
subView(v, e, ok) ==
  IF v = "inbox" /\ e = "reply" THEN "compose"
  ELSE IF v = "compose" /\ e = "send" /\ ok THEN "outbox"
  ELSE IF v = "newContact" /\ e = "process" /\ ok THEN "contact"
  ELSE v

\* The variables that the dispatch of events leaves alone.
nonNvVars ==
  << ownerVars, sharedVars, enqVars, hsVars, ioVars, sz, ld, xs >>

\* One call of nextEvent, by the loop of the sub-view shown or, when the
\* function of the view has returned, by mainUI (client.go:516): a
\* notification is processed and no event returned; a sub-view returns a
\* wanted event to mainUI and handles the others; mainUI dispatches what
\* it read.
NvRead ==
  /\ nv.carried = ""
  /\ Len(nv.consumed) < MaxEvents
  /\ \E e \in NavEvents \cup LocalEvents \cup Notifications, ok \in BOOLEAN :
       nv' =
         IF e \in Notifications
           THEN [nv EXCEPT !.consumed = Append(@, e), !.processed = @ + 1]
         ELSE IF nv.view \in LoopViews
           THEN IF wanted(e)
                  THEN [nv EXCEPT !.consumed = Append(@, e), !.carried = e]
                ELSE [nv EXCEPT !.consumed = Append(@, e),
                                !.view = subView(nv.view, e, ok)]
         ELSE IF dispatch(e) # ""
           THEN [nv EXCEPT !.consumed = Append(@, e),
                           !.dispatched = Append(@, e),
                           !.view = dispatch(e)]
         ELSE [nv EXCEPT !.consumed = Append(@, e)]
  /\ UNCHANGED nonNvVars

\* mainUI takes the event a sub-view returned (client.go:513-514) and
\* dispatches it.
NvDispatch ==
  /\ nv.carried # ""
  /\ nv' = [nv EXCEPT !.carried = "",
                      !.dispatched = IF dispatch(nv.carried) # ""
                                       THEN Append(@, nv.carried) ELSE @,
                      !.view = IF dispatch(nv.carried) # ""
                                 THEN dispatch(nv.carried) ELSE "main"]
  /\ UNCHANGED nonNvVars

\* mainUI before its first event.
NvInit ==
  /\ contacts = << >>
  /\ allocated = 0
  /\ inbox = << >>
  /\ outbox = << >>
  /\ view = MainView
  /\ disk = Snapshot(<< >>, << >>, << >>)
  /\ unsealRuns = << >>
  /\ queue = << >>
  /\ queueMutex = 0
  /\ messageSentChan = << >>
  /\ enqPc = [p \in Callers |-> "call"]
  /\ enqTmp = [p \in Callers |-> << >>]
  /\ enqSent = [p \in Callers |-> 0]
  /\ hsStage = "idle"
  /\ hsSender = 1
  /\ hsChoice = Honest
  /\ hsRand = 1
  /\ hsWire = << >>
  /\ hsBefore = NewContact("peer", 1)
  /\ hsContact = NewContact("peer", 1)
  /\ hsErr = NoErr
  /\ ioTodo = << >>
  /\ ioMem = 1
  /\ ioRevealed = [kxout |-> 0, showOutbox |-> 0]
  /\ ioClosed = {}
  /\ ioMade = LoadUIMade
  /\ wrPc = "recv"
  /\ wrBuf = 0
  /\ wrFile = 0
  /\ netPc = "run"
  /\ sz = SzIdle
  /\ ld = LdIdle
  /\ nv = [view |-> "main", carried |-> "", consumed |-> << >>,
           dispatched |-> << >>, processed |-> 0]
  /\ xs = XsIdle

NvNext == NvRead \/ NvDispatch

SpecNav == NvInit /\ [][NvNext]_vars

\* The navigation events among the events read.
IsNav(e) == e \in NavEvents

IsNotification(e) == e \in Notifications

\* C33: the navigation events read so far, in their order, are those
\* dispatched followed by the one a sub-view has returned and mainUI has
\* not yet dispatched (none dropped, none dispatched twice); no event is
\* read while one is carried; and every notification read was processed in
\* nextEvent and is neither carried nor dispatched.
C33_NavigationExactlyOnce ==
  /\ [](nv.dispatched \o (IF nv.carried = "" THEN << >>
                          ELSE << nv.carried >>)
          = SelectSeq(nv.consumed, IsNav))
  /\ [](nv.processed = Len(SelectSeq(nv.consumed, IsNotification)))
  /\ [][nv.carried # "" => nv'.consumed = nv.consumed]_vars

\* C33 witness: a sub-view has returned a navigation event to mainUI after
\* a notification was processed in that sub-view.
C33_Witness ==
  /\ nv.carried \in NavEvents
  /\ nv.view \in LoopViews
  /\ nv.processed > 0
  /\ Len(nv.dispatched) > 0

(***************************************************************************)
(* The exported Shutdown (client.go:2286-2294) called by a goroutine other *)
(* than the session's, while the session goroutine, the state writer and   *)
(* the network goroutine run as in SpecIO.  Closing a closed channel and   *)
(* sending on a closed channel panic: SendOnClosed and CloseOfClosed are   *)
(* the states in which a goroutine is at such a statement.                 *)
(***************************************************************************)

\* What a step of the other goroutine leaves alone besides ioClosed.
nonXsVars ==
  << ownerVars, sharedVars, enqVars, hsVars, ioTodo, ioMem, ioRevealed, ioMade,
     wrPc, wrBuf, wrFile, netPc, sz, ld, nv >>

\* The other goroutine calls c.Shutdown().
XsCall ==
  /\ xs = "ready"
  /\ xs' = "closeWriter"
  /\ UNCHANGED << ioClosed, nonXsVars >>

\* if c.writerChan != nil { close(c.writerChan) ... (client.go:2287-2288).
XsCloseWriter ==
  /\ xs = "closeWriter"
  /\ IF "writerChan" \notin ioMade
       THEN xs' = "closeFetch" /\ UNCHANGED ioClosed
     ELSE /\ "writerChan" \notin ioClosed
          /\ ioClosed' = ioClosed \cup {"writerChan"}
          /\ xs' = "waitDone"
  /\ UNCHANGED nonXsVars

\* <-c.writerDone (client.go:2289): the receive returns when stateWriter
\* has closed the channel; from a writerDone that is still nil it never
\* returns.
XsWaitDone ==
  /\ xs = "waitDone"
  /\ IF "writerDone" \notin ioMade THEN xs' = "blocked"
     ELSE "writerDone" \in ioClosed /\ xs' = "closeFetch"
  /\ UNCHANGED << ioClosed, nonXsVars >>

\* if c.fetchNowChan != nil { close(c.fetchNowChan) } (client.go:2291-2293).
XsCloseFetch ==
  /\ xs = "closeFetch"
  /\ IF fetchNowChanIsNil
       THEN UNCHANGED ioClosed
     ELSE /\ "fetchNowChan" \notin ioClosed
          /\ ioClosed' = ioClosed \cup {"fetchNowChan"}
  /\ xs' = "returned"
  /\ UNCHANGED nonXsVars

\* As IoInit, with a goroutine that may call Shutdown.
XsInit ==
  /\ contacts = << >>
  /\ allocated = 0
  /\ inbox = << >>
  /\ outbox = << >>
  /\ view = MainView
  /\ disk = Snapshot(<< >>, << >>, << >>)
  /\ unsealRuns = << >>
  /\ queue = << >>
  /\ queueMutex = 0
  /\ messageSentChan = << >>
  /\ enqPc = [p \in Callers |-> "call"]
  /\ enqTmp = [p \in Callers |-> << >>]
  /\ enqSent = [p \in Callers |-> 0]
  /\ hsStage = "idle"
  /\ hsSender = 1
  /\ hsChoice = Honest
  /\ hsRand = 1
  /\ hsWire = << >>
  /\ hsBefore = NewContact("peer", 1)
  /\ hsContact = NewContact("peer", 1)
  /\ hsErr = NoErr
  /\ ioTodo \in {<< s >> : s \in Startup}
  /\ ioMem = 1
  /\ ioRevealed = [kxout |-> 0, showOutbox |-> 0]
  /\ ioClosed = {}
  /\ ioMade = {}
  /\ wrPc = "absent"
  /\ wrBuf = 0
  /\ wrFile = IF ioTodo = << "keyPromptUI" >> THEN 1 ELSE 0
  /\ netPc = "absent"
  /\ sz = SzIdle
  /\ ld = LdIdle
  /\ nv = NvIdle
  /\ xs = "ready"

XsNext ==
  \/ IoLoadUI
  \/ IoMake
  \/ IoGoStateWriter
  \/ IoGoTransact
  \/ IoClickCreate
  \/ IoClickProcess
  \/ IoClickSend
  \/ IoClickAck
  \/ IoOpenResult
  \/ IoNetEvent
  \/ IoCloseEvents
  \/ IoShutdownRequest
  \/ IoSave
  \/ IoFile
  \/ IoReveal
  \/ IoCloseWriter
  \/ IoWaitDone
  \/ IoCloseFetch
  \/ IoCloseActions
  \/ WrWrite
  \/ WrDone
  \/ NetStop
  \/ XsCall
  \/ XsCloseWriter
  \/ XsWaitDone
  \/ XsCloseFetch

SpecShutdown == XsInit /\ [][XsNext]_vars

\* The session goroutine is about to send on writerChan, which is closed.
SendOnClosed ==
  At("save") /\ "writerChan" \in ioMade /\ "writerChan" \in ioClosed

\* A goroutine is about to close a channel that is closed.
CloseOfClosed ==
  \/ At("closeWriter") /\ "writerChan" \in ioMade /\ "writerChan" \in ioClosed
  \/ At("closeFetch") /\ ~fetchNowChanIsNil /\ "fetchNowChan" \in ioClosed
  \/ xs = "closeWriter" /\ "writerChan" \in ioMade /\ "writerChan" \in ioClosed
  \/ xs = "closeFetch" /\ ~fetchNowChanIsNil /\ "fetchNowChan" \in ioClosed

\* C34: under every interleaving of the exported Shutdown with the session
\* goroutine, c.save never sends on the closed writerChan and no channel is
\* closed twice.
C34_NoSendAfterClose == ~SendOnClosed /\ ~CloseOfClosed

(***************************************************************************)
(* C35..C36: shutting down (checked under SpecIO and FairSpecIO).          *)
(***************************************************************************)

\* C35: when the events channel is closed before loadUI has made the
\* channels and started the workers, ShutdownAndSuspend hands nothing to a
\* state writer, leaves the state file alone, closes no channel but that
\* of the ui's actions, and ends parked with that channel closed.
C35_EarlyShutdown ==
  /\ [](InShutdown /\ wrPc = "absent" =>
          /\ ioClosed \subseteq {"events", "actions"}
          /\ wrBuf = 0
          /\ netPc = "absent"
          /\ Parked => "actions" \in ioClosed)
  /\ [][InShutdown /\ wrPc = "absent" =>
          /\ InShutdown'
          /\ wrPc' = "absent"
          /\ wrFile' = wrFile]_vars

\* C35 witness: the session goroutine is parked, no worker was ever
\* started, and the channel of the ui's actions is closed.
C35_Witness ==
  /\ Parked
  /\ wrPc = "absent"
  /\ netPc = "absent"
  /\ "actions" \in ioClosed

\* A step of the session goroutine inside ShutdownAndSuspend.
IoShutdownStep ==
  \/ InShutdown /\ IoSave
  \/ IoCloseWriter
  \/ IoWaitDone
  \/ IoCloseFetch
  \/ IoCloseActions

\* SpecIO with a session goroutine that goes on whenever it can, and a state
\* writer that finishes each write and returns when its channel is closed.
\* Nothing is assumed of the network goroutine.
FairSpecIO ==
  /\ SpecIO
  /\ WF_vars(IoShutdownStep)
  /\ WF_vars(WrWrite)
  /\ WF_vars(WrDone)

\* ShutdownAndSuspend has done all it does: the session goroutine is
\* parked and, if the workers had been started, the state in memory was
\* accepted by the state writer, writerDone was received and fetchNowChan
\* is closed.
ShutdownComplete ==
  /\ Parked
  /\ "actions" \in ioClosed
  /\ wrPc # "absent" =>
       /\ wrBuf = ioMem
       /\ {"writerChan", "writerDone", "fetchNowChan"} \subseteq ioClosed

\* C36: once the session goroutine has found the events channel closed and
\* called ShutdownAndSuspend, it eventually is parked with the shutdown
\* complete, whether or not the network goroutine ever takes a step.
C36_ShutdownTerminates == InShutdown ~> ShutdownComplete

\* C36 witness: the shutdown is complete with both workers started, while
\* the network goroutine has not yet found its channel closed.
C36_Witness ==
  /\ ShutdownComplete
  /\ wrPc = "done"
  /\ netPc = "run"

(***************************************************************************)
(* C37..C39: the key exchange record and the messages of a contact         *)
(* (checked under Spec).                                                   *)
(***************************************************************************)

\* The record and the scalar of the contact are those of one call of
\* newKeyExchange.
GeneratedOnce(contact) ==
  \E r \in Rand :
    /\ contact.lastDHPrivate = Scalar(r)
    /\ contact.kxsBytes =
         newKeyExchange(Identity(Me), NewContact(contact.name, contact.id),
                        Scalar(r), r).kxsBytes

\* C37 (as claimed): every contact has the key exchange record that
\* newKeyExchange made for it with its DH private scalar, no step changes
\* the record or the scalar of a contact that exists, and the view that a
\* pending contact is opened in shows the record stored.
C37_RecordAndScalarNeverChange ==
  /\ [](\A id \in DOMAIN contacts : GeneratedOnce(contacts[id]))
  /\ [][\A id \in DOMAIN contacts :
          SameContact(id) =>
            /\ contacts'[id].kxsBytes = contacts[id].kxsBytes
            /\ contacts'[id].lastDHPrivate = contacts[id].lastDHPrivate]_vars
  /\ [](view.ui = "newContact2" =>
          /\ view.arg \in DOMAIN contacts
          /\ contacts[view.arg].isPending
          /\ Len(contacts[view.arg].kxsBytes) > 0)

\* The record of the contact is that of one call of newKeyExchange, and
\* so is the scalar in the previous slot of its ratchet as long as the
\* ratchet has not advanced.
RecordGenerated(contact) ==
  \E r \in Rand :
    /\ contact.kxsBytes =
         newKeyExchange(Identity(Me), NewContact(contact.name, contact.id),
                        Scalar(r), r).kxsBytes
    /\ contact.theirLastDHPublic = ZeroKey =>
         contact.lastDHPrivate = Scalar(r)

\* The step unseals a message that came from the contact under id: one
\* that was in the inbox in sealed form, or the one it adds to the inbox.
UnsealsFrom(id) ==
  \/ \E i \in 1 .. Len(inbox) :
       /\ i <= Len(inbox')
       /\ inbox[i].from = id
       /\ inbox[i].message = None
       /\ inbox'[i].message # None
  \/ /\ Len(inbox') > Len(inbox)
     /\ inbox'[Len(inbox')].from = id
     /\ inbox'[Len(inbox')].message # None

\* C37: every contact has a key exchange record that newKeyExchange made
\* for it, with the DH private scalar it holds in the previous slot of its
\* ratchet until the ratchet advances; no step changes the record of a
\* contact that exists; a step changes the scalar in the previous slot
\* only when it unseals a message from the contact, which is then not
\* pending, and the slot then holds what the current slot held; and the
\* view that a pending contact is opened in shows the record stored.
C37_HandshakeGeneratedOnce ==
  /\ [](\A id \in DOMAIN contacts : RecordGenerated(contacts[id]))
  /\ [][\A id \in DOMAIN contacts :
          SameContact(id) =>
            /\ contacts'[id].kxsBytes = contacts[id].kxsBytes
            /\ contacts'[id].lastDHPrivate # contacts[id].lastDHPrivate =>
                 /\ ~contacts'[id].isPending
                 /\ UnsealsFrom(id)
                 /\ contacts'[id].lastDHPrivate
                      = contacts[id].currentDHPrivate]_vars
  /\ [](view.ui = "newContact2" =>
          /\ view.arg \in DOMAIN contacts
          /\ contacts[view.arg].isPending
          /\ Len(contacts[view.arg].kxsBytes) > 0)

\* C37 witness: a message of a contact whose handshake is complete was
\* unsealed and advanced the ratchet, so that the scalar drawn for the key
\* exchange record has left the previous slot, and the record stored is
\* still the one generated.
C37_Witness ==
  \E id \in DOMAIN contacts :
    /\ ~contacts[id].isPending
    /\ contacts[id].theirLastDHPublic # ZeroKey
    /\ ~GeneratedOnce(contacts[id])
    /\ RecordGenerated(contacts[id])
    /\ \E i \in 1 .. Len(inbox) :
         inbox[i].from = id /\ inbox[i].message # None

\* The message that the step appended to the outbox.
NewOutMessage == outbox'[Len(outbox')].message

\* C38: a message is put in the outbox only from the compose view, with a
\* body that is not empty, or from the view of an inbox message (by
\* sendAck), with an empty body and a reference to a message; the outbox
\* list has entries only for messages with a body, and the inbox list has
\* no entry for an unsealed message without body.
C38_EmptyBodyIffAck ==
  /\ [][Len(outbox') > Len(outbox) =>
          /\ Len(outbox') = Len(outbox) + 1
          /\ view.ui \in {"compose", "inbox"}
          /\ view.ui = "compose" => Len(NewOutMessage.body) > 0
          /\ view.ui = "inbox" =>
               Len(NewOutMessage.body) = 0 /\ NewOutMessage.inReplyTo # None]_vars
  /\ [](\A i \in 1 .. Len(outbox) :
          outboxListed(outbox[i]) => Len(outbox[i].message.body) > 0)
  /\ [](\A i \in 1 .. Len(inbox) :
          Listed(inbox[i]) /\ inbox[i].message # None =>
            Len(inbox[i].message[1].body) > 0)

\* C38 witness: the outbox holds a message composed with nothing typed,
\* which has the one space as its body and is listed, and an
\* acknowledgement, which has no body and is not listed.
C38_Witness ==
  \E i, j \in 1 .. Len(outbox) :
    /\ outbox[i].message.body = << 32 >>
    /\ outbox[i].message.inReplyTo = None
    /\ outboxListed(outbox[i])
    /\ Len(outbox[j].message.body) = 0
    /\ outbox[j].message.inReplyTo # None
    /\ ~outboxListed(outbox[j])

(***************************************************************************)
(* C39: no message for a pending contact.                                  *)
(***************************************************************************)

\* C39 (as claimed): a step that puts a message in the outbox (and so in the
\* queue) puts one whose recipient is a contact that is no longer pending:
\* nothing is composed with the keys of, or enqueued for, a contact whose
\* handshake is not complete.
C39_NothingForPending ==
  [][Len(outbox') > Len(outbox) =>
       \E id \in DOMAIN contacts :
         /\ contacts[id].id = outbox'[Len(outbox')].to
         /\ ~contacts[id].isPending]_vars

====
